---- MODULE Spec2Model ----
(***************************************************************************)
(* A model of the PDF-processing HTTP functions of                         *)
(* functions-python/main.py (the nine cloud functions) and                 *)
(* functions-python/local_server.py (PDFHandler.do_POST and its five       *)
(* endpoints).  The local server reads the body of a request from its      *)
(* connection (rfile), the one state a handler reads and writes.           *)
(*                                                                         *)
(* Text is a sequence of one-character strings, so that len, strip, lower, *)
(* split and re.match are computed character by character.  What the PDF   *)
(* libraries return (words, page text, tables, images, or an exception) is *)
(* the input of a request.                                                 *)
(***************************************************************************)
EXTENDS Integers, Sequences, FiniteSets, TLC

VARIABLES phase, req, resp, log, first, rfile

vars == <<phase, req, resp, log, first, rfile>>

(***************************************************************************)
(* Python values                                                           *)
(***************************************************************************)

\* Python's None
None == [t |-> "none"]

\* A character of a text is a string of one character; a code point that a
\* string of this module cannot hold is written as its name, "U+2003".

\* the characters c with c.isspace(): what str.strip() and str.split()
\* remove and what \s matches.  After the four of ASCII text: U+000B,
\* U+000C, U+001C to U+001F, U+0085, U+00A0, U+1680 and the spaces of the
\* General Punctuation block and U+3000
Whitespace ==
    {" ", "\t", "\n", "\r", "", "\f", "", "", "", "", "", " ", "U+1680",
     "U+2000", "U+2001", "U+2002", "U+2003", "U+2004", "U+2005", "U+2006",
     "U+2007", "U+2008", "U+2009", "U+200A", "U+2028", "U+2029", "U+202F",
     "U+205F", "U+3000"}

\* the decimal digits (category Nd), in the order of their code points: the
\* characters \d matches, str.isdecimal() holds of and int() reads.  They
\* come in runs of ten, 0 to 9: the ASCII digits first, then U+0660 to
\* U+0669, and so on
DecimalDigits ==
    <<
      "0", "1", "2", "3", "4", "5", "6", "7", "8", "9", "U+0660", "U+0661",
      "U+0662", "U+0663", "U+0664", "U+0665", "U+0666", "U+0667", "U+0668",
      "U+0669", "U+06F0", "U+06F1", "U+06F2", "U+06F3", "U+06F4", "U+06F5",
      "U+06F6", "U+06F7", "U+06F8", "U+06F9", "U+07C0", "U+07C1", "U+07C2",
      "U+07C3", "U+07C4", "U+07C5", "U+07C6", "U+07C7", "U+07C8", "U+07C9",
      "U+0966", "U+0967", "U+0968", "U+0969", "U+096A", "U+096B", "U+096C",
      "U+096D", "U+096E", "U+096F", "U+09E6", "U+09E7", "U+09E8", "U+09E9",
      "U+09EA", "U+09EB", "U+09EC", "U+09ED", "U+09EE", "U+09EF", "U+0A66",
      "U+0A67", "U+0A68", "U+0A69", "U+0A6A", "U+0A6B", "U+0A6C", "U+0A6D",
      "U+0A6E", "U+0A6F", "U+0AE6", "U+0AE7", "U+0AE8", "U+0AE9", "U+0AEA",
      "U+0AEB", "U+0AEC", "U+0AED", "U+0AEE", "U+0AEF", "U+0B66", "U+0B67",
      "U+0B68", "U+0B69", "U+0B6A", "U+0B6B", "U+0B6C", "U+0B6D", "U+0B6E",
      "U+0B6F", "U+0BE6", "U+0BE7", "U+0BE8", "U+0BE9", "U+0BEA", "U+0BEB",
      "U+0BEC", "U+0BED", "U+0BEE", "U+0BEF", "U+0C66", "U+0C67", "U+0C68",
      "U+0C69", "U+0C6A", "U+0C6B", "U+0C6C", "U+0C6D", "U+0C6E", "U+0C6F",
      "U+0CE6", "U+0CE7", "U+0CE8", "U+0CE9", "U+0CEA", "U+0CEB", "U+0CEC",
      "U+0CED", "U+0CEE", "U+0CEF", "U+0D66", "U+0D67", "U+0D68", "U+0D69",
      "U+0D6A", "U+0D6B", "U+0D6C", "U+0D6D", "U+0D6E", "U+0D6F", "U+0DE6",
      "U+0DE7", "U+0DE8", "U+0DE9", "U+0DEA", "U+0DEB", "U+0DEC", "U+0DED",
      "U+0DEE", "U+0DEF", "U+0E50", "U+0E51", "U+0E52", "U+0E53", "U+0E54",
      "U+0E55", "U+0E56", "U+0E57", "U+0E58", "U+0E59", "U+0ED0", "U+0ED1",
      "U+0ED2", "U+0ED3", "U+0ED4", "U+0ED5", "U+0ED6", "U+0ED7", "U+0ED8",
      "U+0ED9", "U+0F20", "U+0F21", "U+0F22", "U+0F23", "U+0F24", "U+0F25",
      "U+0F26", "U+0F27", "U+0F28", "U+0F29", "U+1040", "U+1041", "U+1042",
      "U+1043", "U+1044", "U+1045", "U+1046", "U+1047", "U+1048", "U+1049",
      "U+1090", "U+1091", "U+1092", "U+1093", "U+1094", "U+1095", "U+1096",
      "U+1097", "U+1098", "U+1099", "U+17E0", "U+17E1", "U+17E2", "U+17E3",
      "U+17E4", "U+17E5", "U+17E6", "U+17E7", "U+17E8", "U+17E9", "U+1810",
      "U+1811", "U+1812", "U+1813", "U+1814", "U+1815", "U+1816", "U+1817",
      "U+1818", "U+1819", "U+1946", "U+1947", "U+1948", "U+1949", "U+194A",
      "U+194B", "U+194C", "U+194D", "U+194E", "U+194F", "U+19D0", "U+19D1",
      "U+19D2", "U+19D3", "U+19D4", "U+19D5", "U+19D6", "U+19D7", "U+19D8",
      "U+19D9", "U+1A80", "U+1A81", "U+1A82", "U+1A83", "U+1A84", "U+1A85",
      "U+1A86", "U+1A87", "U+1A88", "U+1A89", "U+1A90", "U+1A91", "U+1A92",
      "U+1A93", "U+1A94", "U+1A95", "U+1A96", "U+1A97", "U+1A98", "U+1A99",
      "U+1B50", "U+1B51", "U+1B52", "U+1B53", "U+1B54", "U+1B55", "U+1B56",
      "U+1B57", "U+1B58", "U+1B59", "U+1BB0", "U+1BB1", "U+1BB2", "U+1BB3",
      "U+1BB4", "U+1BB5", "U+1BB6", "U+1BB7", "U+1BB8", "U+1BB9", "U+1C40",
      "U+1C41", "U+1C42", "U+1C43", "U+1C44", "U+1C45", "U+1C46", "U+1C47",
      "U+1C48", "U+1C49", "U+1C50", "U+1C51", "U+1C52", "U+1C53", "U+1C54",
      "U+1C55", "U+1C56", "U+1C57", "U+1C58", "U+1C59", "U+A620", "U+A621",
      "U+A622", "U+A623", "U+A624", "U+A625", "U+A626", "U+A627", "U+A628",
      "U+A629", "U+A8D0", "U+A8D1", "U+A8D2", "U+A8D3", "U+A8D4", "U+A8D5",
      "U+A8D6", "U+A8D7", "U+A8D8", "U+A8D9", "U+A900", "U+A901", "U+A902",
      "U+A903", "U+A904", "U+A905", "U+A906", "U+A907", "U+A908", "U+A909",
      "U+A9D0", "U+A9D1", "U+A9D2", "U+A9D3", "U+A9D4", "U+A9D5", "U+A9D6",
      "U+A9D7", "U+A9D8", "U+A9D9", "U+A9F0", "U+A9F1", "U+A9F2", "U+A9F3",
      "U+A9F4", "U+A9F5", "U+A9F6", "U+A9F7", "U+A9F8", "U+A9F9", "U+AA50",
      "U+AA51", "U+AA52", "U+AA53", "U+AA54", "U+AA55", "U+AA56", "U+AA57",
      "U+AA58", "U+AA59", "U+ABF0", "U+ABF1", "U+ABF2", "U+ABF3", "U+ABF4",
      "U+ABF5", "U+ABF6", "U+ABF7", "U+ABF8", "U+ABF9", "U+FF10", "U+FF11",
      "U+FF12", "U+FF13", "U+FF14", "U+FF15", "U+FF16", "U+FF17", "U+FF18",
      "U+FF19", "U+104A0", "U+104A1", "U+104A2", "U+104A3", "U+104A4",
      "U+104A5", "U+104A6", "U+104A7", "U+104A8", "U+104A9", "U+10D30",
      "U+10D31", "U+10D32", "U+10D33", "U+10D34", "U+10D35", "U+10D36",
      "U+10D37", "U+10D38", "U+10D39", "U+11066", "U+11067", "U+11068",
      "U+11069", "U+1106A", "U+1106B", "U+1106C", "U+1106D", "U+1106E",
      "U+1106F", "U+110F0", "U+110F1", "U+110F2", "U+110F3", "U+110F4",
      "U+110F5", "U+110F6", "U+110F7", "U+110F8", "U+110F9", "U+11136",
      "U+11137", "U+11138", "U+11139", "U+1113A", "U+1113B", "U+1113C",
      "U+1113D", "U+1113E", "U+1113F", "U+111D0", "U+111D1", "U+111D2",
      "U+111D3", "U+111D4", "U+111D5", "U+111D6", "U+111D7", "U+111D8",
      "U+111D9", "U+112F0", "U+112F1", "U+112F2", "U+112F3", "U+112F4",
      "U+112F5", "U+112F6", "U+112F7", "U+112F8", "U+112F9", "U+11450",
      "U+11451", "U+11452", "U+11453", "U+11454", "U+11455", "U+11456",
      "U+11457", "U+11458", "U+11459", "U+114D0", "U+114D1", "U+114D2",
      "U+114D3", "U+114D4", "U+114D5", "U+114D6", "U+114D7", "U+114D8",
      "U+114D9", "U+11650", "U+11651", "U+11652", "U+11653", "U+11654",
      "U+11655", "U+11656", "U+11657", "U+11658", "U+11659", "U+116C0",
      "U+116C1", "U+116C2", "U+116C3", "U+116C4", "U+116C5", "U+116C6",
      "U+116C7", "U+116C8", "U+116C9", "U+11730", "U+11731", "U+11732",
      "U+11733", "U+11734", "U+11735", "U+11736", "U+11737", "U+11738",
      "U+11739", "U+118E0", "U+118E1", "U+118E2", "U+118E3", "U+118E4",
      "U+118E5", "U+118E6", "U+118E7", "U+118E8", "U+118E9", "U+11950",
      "U+11951", "U+11952", "U+11953", "U+11954", "U+11955", "U+11956",
      "U+11957", "U+11958", "U+11959", "U+11C50", "U+11C51", "U+11C52",
      "U+11C53", "U+11C54", "U+11C55", "U+11C56", "U+11C57", "U+11C58",
      "U+11C59", "U+11D50", "U+11D51", "U+11D52", "U+11D53", "U+11D54",
      "U+11D55", "U+11D56", "U+11D57", "U+11D58", "U+11D59", "U+11DA0",
      "U+11DA1", "U+11DA2", "U+11DA3", "U+11DA4", "U+11DA5", "U+11DA6",
      "U+11DA7", "U+11DA8", "U+11DA9", "U+16A60", "U+16A61", "U+16A62",
      "U+16A63", "U+16A64", "U+16A65", "U+16A66", "U+16A67", "U+16A68",
      "U+16A69", "U+16AC0", "U+16AC1", "U+16AC2", "U+16AC3", "U+16AC4",
      "U+16AC5", "U+16AC6", "U+16AC7", "U+16AC8", "U+16AC9", "U+16B50",
      "U+16B51", "U+16B52", "U+16B53", "U+16B54", "U+16B55", "U+16B56",
      "U+16B57", "U+16B58", "U+16B59", "U+1D7CE", "U+1D7CF", "U+1D7D0",
      "U+1D7D1", "U+1D7D2", "U+1D7D3", "U+1D7D4", "U+1D7D5", "U+1D7D6",
      "U+1D7D7", "U+1D7D8", "U+1D7D9", "U+1D7DA", "U+1D7DB", "U+1D7DC",
      "U+1D7DD", "U+1D7DE", "U+1D7DF", "U+1D7E0", "U+1D7E1", "U+1D7E2",
      "U+1D7E3", "U+1D7E4", "U+1D7E5", "U+1D7E6", "U+1D7E7", "U+1D7E8",
      "U+1D7E9", "U+1D7EA", "U+1D7EB", "U+1D7EC", "U+1D7ED", "U+1D7EE",
      "U+1D7EF", "U+1D7F0", "U+1D7F1", "U+1D7F2", "U+1D7F3", "U+1D7F4",
      "U+1D7F5", "U+1D7F6", "U+1D7F7", "U+1D7F8", "U+1D7F9", "U+1D7FA",
      "U+1D7FB", "U+1D7FC", "U+1D7FD", "U+1D7FE", "U+1D7FF", "U+1E140",
      "U+1E141", "U+1E142", "U+1E143", "U+1E144", "U+1E145", "U+1E146",
      "U+1E147", "U+1E148", "U+1E149", "U+1E2F0", "U+1E2F1", "U+1E2F2",
      "U+1E2F3", "U+1E2F4", "U+1E2F5", "U+1E2F6", "U+1E2F7", "U+1E2F8",
      "U+1E2F9", "U+1E950", "U+1E951", "U+1E952", "U+1E953", "U+1E954",
      "U+1E955", "U+1E956", "U+1E957", "U+1E958", "U+1E959", "U+1FBF0",
      "U+1FBF1", "U+1FBF2", "U+1FBF3", "U+1FBF4", "U+1FBF5", "U+1FBF6",
      "U+1FBF7", "U+1FBF8", "U+1FBF9"
    >>

\* the characters matched by \d
Digits == {DecimalDigits[i] : i \in 1..Len(DecimalDigits)}

\* the characters c with c.lower() # c, in the order of their code points,
\* and the lower-case character of each (the simple case mapping: U+0130
\* has i, U+212A has k)
UpperLetters ==
    <<
      "A", "B", "C", "D", "E", "F", "G", "H", "I", "J", "K", "L", "M", "N",
      "O", "P", "Q", "R", "S", "T", "U", "V", "W", "X", "Y", "Z", "À", "Á",
      "Â", "Ã", "Ä", "Å", "Æ", "Ç", "È", "É", "Ê", "Ë", "Ì", "Í", "Î", "Ï",
      "Ð", "Ñ", "Ò", "Ó", "Ô", "Õ", "Ö", "Ø", "Ù", "Ú", "Û", "Ü", "Ý", "Þ",
      "U+0100", "U+0102", "U+0104", "U+0106", "U+0108", "U+010A", "U+010C",
      "U+010E", "U+0110", "U+0112", "U+0114", "U+0116", "U+0118", "U+011A",
      "U+011C", "U+011E", "U+0120", "U+0122", "U+0124", "U+0126", "U+0128",
      "U+012A", "U+012C", "U+012E", "U+0130", "U+0132", "U+0134", "U+0136",
      "U+0139", "U+013B", "U+013D", "U+013F", "U+0141", "U+0143", "U+0145",
      "U+0147", "U+014A", "U+014C", "U+014E", "U+0150", "U+0152", "U+0154",
      "U+0156", "U+0158", "U+015A", "U+015C", "U+015E", "U+0160", "U+0162",
      "U+0164", "U+0166", "U+0168", "U+016A", "U+016C", "U+016E", "U+0170",
      "U+0172", "U+0174", "U+0176", "U+0178", "U+0179", "U+017B", "U+017D",
      "U+0181", "U+0182", "U+0184", "U+0186", "U+0187", "U+0189", "U+018A",
      "U+018B", "U+018E", "U+018F", "U+0190", "U+0191", "U+0193", "U+0194",
      "U+0196", "U+0197", "U+0198", "U+019C", "U+019D", "U+019F", "U+01A0",
      "U+01A2", "U+01A4", "U+01A6", "U+01A7", "U+01A9", "U+01AC", "U+01AE",
      "U+01AF", "U+01B1", "U+01B2", "U+01B3", "U+01B5", "U+01B7", "U+01B8",
      "U+01BC", "U+01C4", "U+01C5", "U+01C7", "U+01C8", "U+01CA", "U+01CB",
      "U+01CD", "U+01CF", "U+01D1", "U+01D3", "U+01D5", "U+01D7", "U+01D9",
      "U+01DB", "U+01DE", "U+01E0", "U+01E2", "U+01E4", "U+01E6", "U+01E8",
      "U+01EA", "U+01EC", "U+01EE", "U+01F1", "U+01F2", "U+01F4", "U+01F6",
      "U+01F7", "U+01F8", "U+01FA", "U+01FC", "U+01FE", "U+0200", "U+0202",
      "U+0204", "U+0206", "U+0208", "U+020A", "U+020C", "U+020E", "U+0210",
      "U+0212", "U+0214", "U+0216", "U+0218", "U+021A", "U+021C", "U+021E",
      "U+0220", "U+0222", "U+0224", "U+0226", "U+0228", "U+022A", "U+022C",
      "U+022E", "U+0230", "U+0232", "U+023A", "U+023B", "U+023D", "U+023E",
      "U+0241", "U+0243", "U+0244", "U+0245", "U+0246", "U+0248", "U+024A",
      "U+024C", "U+024E", "U+0370", "U+0372", "U+0376", "U+037F", "U+0386",
      "U+0388", "U+0389", "U+038A", "U+038C", "U+038E", "U+038F", "U+0391",
      "U+0392", "U+0393", "U+0394", "U+0395", "U+0396", "U+0397", "U+0398",
      "U+0399", "U+039A", "U+039B", "U+039C", "U+039D", "U+039E", "U+039F",
      "U+03A0", "U+03A1", "U+03A3", "U+03A4", "U+03A5", "U+03A6", "U+03A7",
      "U+03A8", "U+03A9", "U+03AA", "U+03AB", "U+03CF", "U+03D8", "U+03DA",
      "U+03DC", "U+03DE", "U+03E0", "U+03E2", "U+03E4", "U+03E6", "U+03E8",
      "U+03EA", "U+03EC", "U+03EE", "U+03F4", "U+03F7", "U+03F9", "U+03FA",
      "U+03FD", "U+03FE", "U+03FF", "U+0400", "U+0401", "U+0402", "U+0403",
      "U+0404", "U+0405", "U+0406", "U+0407", "U+0408", "U+0409", "U+040A",
      "U+040B", "U+040C", "U+040D", "U+040E", "U+040F", "U+0410", "U+0411",
      "U+0412", "U+0413", "U+0414", "U+0415", "U+0416", "U+0417", "U+0418",
      "U+0419", "U+041A", "U+041B", "U+041C", "U+041D", "U+041E", "U+041F",
      "U+0420", "U+0421", "U+0422", "U+0423", "U+0424", "U+0425", "U+0426",
      "U+0427", "U+0428", "U+0429", "U+042A", "U+042B", "U+042C", "U+042D",
      "U+042E", "U+042F", "U+0460", "U+0462", "U+0464", "U+0466", "U+0468",
      "U+046A", "U+046C", "U+046E", "U+0470", "U+0472", "U+0474", "U+0476",
      "U+0478", "U+047A", "U+047C", "U+047E", "U+0480", "U+048A", "U+048C",
      "U+048E", "U+0490", "U+0492", "U+0494", "U+0496", "U+0498", "U+049A",
      "U+049C", "U+049E", "U+04A0", "U+04A2", "U+04A4", "U+04A6", "U+04A8",
      "U+04AA", "U+04AC", "U+04AE", "U+04B0", "U+04B2", "U+04B4", "U+04B6",
      "U+04B8", "U+04BA", "U+04BC", "U+04BE", "U+04C0", "U+04C1", "U+04C3",
      "U+04C5", "U+04C7", "U+04C9", "U+04CB", "U+04CD", "U+04D0", "U+04D2",
      "U+04D4", "U+04D6", "U+04D8", "U+04DA", "U+04DC", "U+04DE", "U+04E0",
      "U+04E2", "U+04E4", "U+04E6", "U+04E8", "U+04EA", "U+04EC", "U+04EE",
      "U+04F0", "U+04F2", "U+04F4", "U+04F6", "U+04F8", "U+04FA", "U+04FC",
      "U+04FE", "U+0500", "U+0502", "U+0504", "U+0506", "U+0508", "U+050A",
      "U+050C", "U+050E", "U+0510", "U+0512", "U+0514", "U+0516", "U+0518",
      "U+051A", "U+051C", "U+051E", "U+0520", "U+0522", "U+0524", "U+0526",
      "U+0528", "U+052A", "U+052C", "U+052E", "U+0531", "U+0532", "U+0533",
      "U+0534", "U+0535", "U+0536", "U+0537", "U+0538", "U+0539", "U+053A",
      "U+053B", "U+053C", "U+053D", "U+053E", "U+053F", "U+0540", "U+0541",
      "U+0542", "U+0543", "U+0544", "U+0545", "U+0546", "U+0547", "U+0548",
      "U+0549", "U+054A", "U+054B", "U+054C", "U+054D", "U+054E", "U+054F",
      "U+0550", "U+0551", "U+0552", "U+0553", "U+0554", "U+0555", "U+0556",
      "U+10A0", "U+10A1", "U+10A2", "U+10A3", "U+10A4", "U+10A5", "U+10A6",
      "U+10A7", "U+10A8", "U+10A9", "U+10AA", "U+10AB", "U+10AC", "U+10AD",
      "U+10AE", "U+10AF", "U+10B0", "U+10B1", "U+10B2", "U+10B3", "U+10B4",
      "U+10B5", "U+10B6", "U+10B7", "U+10B8", "U+10B9", "U+10BA", "U+10BB",
      "U+10BC", "U+10BD", "U+10BE", "U+10BF", "U+10C0", "U+10C1", "U+10C2",
      "U+10C3", "U+10C4", "U+10C5", "U+10C7", "U+10CD", "U+13A0", "U+13A1",
      "U+13A2", "U+13A3", "U+13A4", "U+13A5", "U+13A6", "U+13A7", "U+13A8",
      "U+13A9", "U+13AA", "U+13AB", "U+13AC", "U+13AD", "U+13AE", "U+13AF",
      "U+13B0", "U+13B1", "U+13B2", "U+13B3", "U+13B4", "U+13B5", "U+13B6",
      "U+13B7", "U+13B8", "U+13B9", "U+13BA", "U+13BB", "U+13BC", "U+13BD",
      "U+13BE", "U+13BF", "U+13C0", "U+13C1", "U+13C2", "U+13C3", "U+13C4",
      "U+13C5", "U+13C6", "U+13C7", "U+13C8", "U+13C9", "U+13CA", "U+13CB",
      "U+13CC", "U+13CD", "U+13CE", "U+13CF", "U+13D0", "U+13D1", "U+13D2",
      "U+13D3", "U+13D4", "U+13D5", "U+13D6", "U+13D7", "U+13D8", "U+13D9",
      "U+13DA", "U+13DB", "U+13DC", "U+13DD", "U+13DE", "U+13DF", "U+13E0",
      "U+13E1", "U+13E2", "U+13E3", "U+13E4", "U+13E5", "U+13E6", "U+13E7",
      "U+13E8", "U+13E9", "U+13EA", "U+13EB", "U+13EC", "U+13ED", "U+13EE",
      "U+13EF", "U+13F0", "U+13F1", "U+13F2", "U+13F3", "U+13F4", "U+13F5",
      "U+1C90", "U+1C91", "U+1C92", "U+1C93", "U+1C94", "U+1C95", "U+1C96",
      "U+1C97", "U+1C98", "U+1C99", "U+1C9A", "U+1C9B", "U+1C9C", "U+1C9D",
      "U+1C9E", "U+1C9F", "U+1CA0", "U+1CA1", "U+1CA2", "U+1CA3", "U+1CA4",
      "U+1CA5", "U+1CA6", "U+1CA7", "U+1CA8", "U+1CA9", "U+1CAA", "U+1CAB",
      "U+1CAC", "U+1CAD", "U+1CAE", "U+1CAF", "U+1CB0", "U+1CB1", "U+1CB2",
      "U+1CB3", "U+1CB4", "U+1CB5", "U+1CB6", "U+1CB7", "U+1CB8", "U+1CB9",
      "U+1CBA", "U+1CBD", "U+1CBE", "U+1CBF", "U+1E00", "U+1E02", "U+1E04",
      "U+1E06", "U+1E08", "U+1E0A", "U+1E0C", "U+1E0E", "U+1E10", "U+1E12",
      "U+1E14", "U+1E16", "U+1E18", "U+1E1A", "U+1E1C", "U+1E1E", "U+1E20",
      "U+1E22", "U+1E24", "U+1E26", "U+1E28", "U+1E2A", "U+1E2C", "U+1E2E",
      "U+1E30", "U+1E32", "U+1E34", "U+1E36", "U+1E38", "U+1E3A", "U+1E3C",
      "U+1E3E", "U+1E40", "U+1E42", "U+1E44", "U+1E46", "U+1E48", "U+1E4A",
      "U+1E4C", "U+1E4E", "U+1E50", "U+1E52", "U+1E54", "U+1E56", "U+1E58",
      "U+1E5A", "U+1E5C", "U+1E5E", "U+1E60", "U+1E62", "U+1E64", "U+1E66",
      "U+1E68", "U+1E6A", "U+1E6C", "U+1E6E", "U+1E70", "U+1E72", "U+1E74",
      "U+1E76", "U+1E78", "U+1E7A", "U+1E7C", "U+1E7E", "U+1E80", "U+1E82",
      "U+1E84", "U+1E86", "U+1E88", "U+1E8A", "U+1E8C", "U+1E8E", "U+1E90",
      "U+1E92", "U+1E94", "U+1E9E", "U+1EA0", "U+1EA2", "U+1EA4", "U+1EA6",
      "U+1EA8", "U+1EAA", "U+1EAC", "U+1EAE", "U+1EB0", "U+1EB2", "U+1EB4",
      "U+1EB6", "U+1EB8", "U+1EBA", "U+1EBC", "U+1EBE", "U+1EC0", "U+1EC2",
      "U+1EC4", "U+1EC6", "U+1EC8", "U+1ECA", "U+1ECC", "U+1ECE", "U+1ED0",
      "U+1ED2", "U+1ED4", "U+1ED6", "U+1ED8", "U+1EDA", "U+1EDC", "U+1EDE",
      "U+1EE0", "U+1EE2", "U+1EE4", "U+1EE6", "U+1EE8", "U+1EEA", "U+1EEC",
      "U+1EEE", "U+1EF0", "U+1EF2", "U+1EF4", "U+1EF6", "U+1EF8", "U+1EFA",
      "U+1EFC", "U+1EFE", "U+1F08", "U+1F09", "U+1F0A", "U+1F0B", "U+1F0C",
      "U+1F0D", "U+1F0E", "U+1F0F", "U+1F18", "U+1F19", "U+1F1A", "U+1F1B",
      "U+1F1C", "U+1F1D", "U+1F28", "U+1F29", "U+1F2A", "U+1F2B", "U+1F2C",
      "U+1F2D", "U+1F2E", "U+1F2F", "U+1F38", "U+1F39", "U+1F3A", "U+1F3B",
      "U+1F3C", "U+1F3D", "U+1F3E", "U+1F3F", "U+1F48", "U+1F49", "U+1F4A",
      "U+1F4B", "U+1F4C", "U+1F4D", "U+1F59", "U+1F5B", "U+1F5D", "U+1F5F",
      "U+1F68", "U+1F69", "U+1F6A", "U+1F6B", "U+1F6C", "U+1F6D", "U+1F6E",
      "U+1F6F", "U+1F88", "U+1F89", "U+1F8A", "U+1F8B", "U+1F8C", "U+1F8D",
      "U+1F8E", "U+1F8F", "U+1F98", "U+1F99", "U+1F9A", "U+1F9B", "U+1F9C",
      "U+1F9D", "U+1F9E", "U+1F9F", "U+1FA8", "U+1FA9", "U+1FAA", "U+1FAB",
      "U+1FAC", "U+1FAD", "U+1FAE", "U+1FAF", "U+1FB8", "U+1FB9", "U+1FBA",
      "U+1FBB", "U+1FBC", "U+1FC8", "U+1FC9", "U+1FCA", "U+1FCB", "U+1FCC",
      "U+1FD8", "U+1FD9", "U+1FDA", "U+1FDB", "U+1FE8", "U+1FE9", "U+1FEA",
      "U+1FEB", "U+1FEC", "U+1FF8", "U+1FF9", "U+1FFA", "U+1FFB", "U+1FFC",
      "U+2126", "U+212A", "U+212B", "U+2132", "U+2160", "U+2161", "U+2162",
      "U+2163", "U+2164", "U+2165", "U+2166", "U+2167", "U+2168", "U+2169",
      "U+216A", "U+216B", "U+216C", "U+216D", "U+216E", "U+216F", "U+2183",
      "U+24B6", "U+24B7", "U+24B8", "U+24B9", "U+24BA", "U+24BB", "U+24BC",
      "U+24BD", "U+24BE", "U+24BF", "U+24C0", "U+24C1", "U+24C2", "U+24C3",
      "U+24C4", "U+24C5", "U+24C6", "U+24C7", "U+24C8", "U+24C9", "U+24CA",
      "U+24CB", "U+24CC", "U+24CD", "U+24CE", "U+24CF", "U+2C00", "U+2C01",
      "U+2C02", "U+2C03", "U+2C04", "U+2C05", "U+2C06", "U+2C07", "U+2C08",
      "U+2C09", "U+2C0A", "U+2C0B", "U+2C0C", "U+2C0D", "U+2C0E", "U+2C0F",
      "U+2C10", "U+2C11", "U+2C12", "U+2C13", "U+2C14", "U+2C15", "U+2C16",
      "U+2C17", "U+2C18", "U+2C19", "U+2C1A", "U+2C1B", "U+2C1C", "U+2C1D",
      "U+2C1E", "U+2C1F", "U+2C20", "U+2C21", "U+2C22", "U+2C23", "U+2C24",
      "U+2C25", "U+2C26", "U+2C27", "U+2C28", "U+2C29", "U+2C2A", "U+2C2B",
      "U+2C2C", "U+2C2D", "U+2C2E", "U+2C2F", "U+2C60", "U+2C62", "U+2C63",
      "U+2C64", "U+2C67", "U+2C69", "U+2C6B", "U+2C6D", "U+2C6E", "U+2C6F",
      "U+2C70", "U+2C72", "U+2C75", "U+2C7E", "U+2C7F", "U+2C80", "U+2C82",
      "U+2C84", "U+2C86", "U+2C88", "U+2C8A", "U+2C8C", "U+2C8E", "U+2C90",
      "U+2C92", "U+2C94", "U+2C96", "U+2C98", "U+2C9A", "U+2C9C", "U+2C9E",
      "U+2CA0", "U+2CA2", "U+2CA4", "U+2CA6", "U+2CA8", "U+2CAA", "U+2CAC",
      "U+2CAE", "U+2CB0", "U+2CB2", "U+2CB4", "U+2CB6", "U+2CB8", "U+2CBA",
      "U+2CBC", "U+2CBE", "U+2CC0", "U+2CC2", "U+2CC4", "U+2CC6", "U+2CC8",
      "U+2CCA", "U+2CCC", "U+2CCE", "U+2CD0", "U+2CD2", "U+2CD4", "U+2CD6",
      "U+2CD8", "U+2CDA", "U+2CDC", "U+2CDE", "U+2CE0", "U+2CE2", "U+2CEB",
      "U+2CED", "U+2CF2", "U+A640", "U+A642", "U+A644", "U+A646", "U+A648",
      "U+A64A", "U+A64C", "U+A64E", "U+A650", "U+A652", "U+A654", "U+A656",
      "U+A658", "U+A65A", "U+A65C", "U+A65E", "U+A660", "U+A662", "U+A664",
      "U+A666", "U+A668", "U+A66A", "U+A66C", "U+A680", "U+A682", "U+A684",
      "U+A686", "U+A688", "U+A68A", "U+A68C", "U+A68E", "U+A690", "U+A692",
      "U+A694", "U+A696", "U+A698", "U+A69A", "U+A722", "U+A724", "U+A726",
      "U+A728", "U+A72A", "U+A72C", "U+A72E", "U+A732", "U+A734", "U+A736",
      "U+A738", "U+A73A", "U+A73C", "U+A73E", "U+A740", "U+A742", "U+A744",
      "U+A746", "U+A748", "U+A74A", "U+A74C", "U+A74E", "U+A750", "U+A752",
      "U+A754", "U+A756", "U+A758", "U+A75A", "U+A75C", "U+A75E", "U+A760",
      "U+A762", "U+A764", "U+A766", "U+A768", "U+A76A", "U+A76C", "U+A76E",
      "U+A779", "U+A77B", "U+A77D", "U+A77E", "U+A780", "U+A782", "U+A784",
      "U+A786", "U+A78B", "U+A78D", "U+A790", "U+A792", "U+A796", "U+A798",
      "U+A79A", "U+A79C", "U+A79E", "U+A7A0", "U+A7A2", "U+A7A4", "U+A7A6",
      "U+A7A8", "U+A7AA", "U+A7AB", "U+A7AC", "U+A7AD", "U+A7AE", "U+A7B0",
      "U+A7B1", "U+A7B2", "U+A7B3", "U+A7B4", "U+A7B6", "U+A7B8", "U+A7BA",
      "U+A7BC", "U+A7BE", "U+A7C0", "U+A7C2", "U+A7C4", "U+A7C5", "U+A7C6",
      "U+A7C7", "U+A7C9", "U+A7D0", "U+A7D6", "U+A7D8", "U+A7F5", "U+FF21",
      "U+FF22", "U+FF23", "U+FF24", "U+FF25", "U+FF26", "U+FF27", "U+FF28",
      "U+FF29", "U+FF2A", "U+FF2B", "U+FF2C", "U+FF2D", "U+FF2E", "U+FF2F",
      "U+FF30", "U+FF31", "U+FF32", "U+FF33", "U+FF34", "U+FF35", "U+FF36",
      "U+FF37", "U+FF38", "U+FF39", "U+FF3A", "U+10400", "U+10401",
      "U+10402", "U+10403", "U+10404", "U+10405", "U+10406", "U+10407",
      "U+10408", "U+10409", "U+1040A", "U+1040B", "U+1040C", "U+1040D",
      "U+1040E", "U+1040F", "U+10410", "U+10411", "U+10412", "U+10413",
      "U+10414", "U+10415", "U+10416", "U+10417", "U+10418", "U+10419",
      "U+1041A", "U+1041B", "U+1041C", "U+1041D", "U+1041E", "U+1041F",
      "U+10420", "U+10421", "U+10422", "U+10423", "U+10424", "U+10425",
      "U+10426", "U+10427", "U+104B0", "U+104B1", "U+104B2", "U+104B3",
      "U+104B4", "U+104B5", "U+104B6", "U+104B7", "U+104B8", "U+104B9",
      "U+104BA", "U+104BB", "U+104BC", "U+104BD", "U+104BE", "U+104BF",
      "U+104C0", "U+104C1", "U+104C2", "U+104C3", "U+104C4", "U+104C5",
      "U+104C6", "U+104C7", "U+104C8", "U+104C9", "U+104CA", "U+104CB",
      "U+104CC", "U+104CD", "U+104CE", "U+104CF", "U+104D0", "U+104D1",
      "U+104D2", "U+104D3", "U+10570", "U+10571", "U+10572", "U+10573",
      "U+10574", "U+10575", "U+10576", "U+10577", "U+10578", "U+10579",
      "U+1057A", "U+1057C", "U+1057D", "U+1057E", "U+1057F", "U+10580",
      "U+10581", "U+10582", "U+10583", "U+10584", "U+10585", "U+10586",
      "U+10587", "U+10588", "U+10589", "U+1058A", "U+1058C", "U+1058D",
      "U+1058E", "U+1058F", "U+10590", "U+10591", "U+10592", "U+10594",
      "U+10595", "U+10C80", "U+10C81", "U+10C82", "U+10C83", "U+10C84",
      "U+10C85", "U+10C86", "U+10C87", "U+10C88", "U+10C89", "U+10C8A",
      "U+10C8B", "U+10C8C", "U+10C8D", "U+10C8E", "U+10C8F", "U+10C90",
      "U+10C91", "U+10C92", "U+10C93", "U+10C94", "U+10C95", "U+10C96",
      "U+10C97", "U+10C98", "U+10C99", "U+10C9A", "U+10C9B", "U+10C9C",
      "U+10C9D", "U+10C9E", "U+10C9F", "U+10CA0", "U+10CA1", "U+10CA2",
      "U+10CA3", "U+10CA4", "U+10CA5", "U+10CA6", "U+10CA7", "U+10CA8",
      "U+10CA9", "U+10CAA", "U+10CAB", "U+10CAC", "U+10CAD", "U+10CAE",
      "U+10CAF", "U+10CB0", "U+10CB1", "U+10CB2", "U+118A0", "U+118A1",
      "U+118A2", "U+118A3", "U+118A4", "U+118A5", "U+118A6", "U+118A7",
      "U+118A8", "U+118A9", "U+118AA", "U+118AB", "U+118AC", "U+118AD",
      "U+118AE", "U+118AF", "U+118B0", "U+118B1", "U+118B2", "U+118B3",
      "U+118B4", "U+118B5", "U+118B6", "U+118B7", "U+118B8", "U+118B9",
      "U+118BA", "U+118BB", "U+118BC", "U+118BD", "U+118BE", "U+118BF",
      "U+16E40", "U+16E41", "U+16E42", "U+16E43", "U+16E44", "U+16E45",
      "U+16E46", "U+16E47", "U+16E48", "U+16E49", "U+16E4A", "U+16E4B",
      "U+16E4C", "U+16E4D", "U+16E4E", "U+16E4F", "U+16E50", "U+16E51",
      "U+16E52", "U+16E53", "U+16E54", "U+16E55", "U+16E56", "U+16E57",
      "U+16E58", "U+16E59", "U+16E5A", "U+16E5B", "U+16E5C", "U+16E5D",
      "U+16E5E", "U+16E5F", "U+1E900", "U+1E901", "U+1E902", "U+1E903",
      "U+1E904", "U+1E905", "U+1E906", "U+1E907", "U+1E908", "U+1E909",
      "U+1E90A", "U+1E90B", "U+1E90C", "U+1E90D", "U+1E90E", "U+1E90F",
      "U+1E910", "U+1E911", "U+1E912", "U+1E913", "U+1E914", "U+1E915",
      "U+1E916", "U+1E917", "U+1E918", "U+1E919", "U+1E91A", "U+1E91B",
      "U+1E91C", "U+1E91D", "U+1E91E", "U+1E91F", "U+1E920", "U+1E921"
    >>
LowerLetters ==
    <<
      "a", "b", "c", "d", "e", "f", "g", "h", "i", "j", "k", "l", "m", "n",
      "o", "p", "q", "r", "s", "t", "u", "v", "w", "x", "y", "z", "à", "á",
      "â", "ã", "ä", "å", "æ", "ç", "è", "é", "ê", "ë", "ì", "í", "î", "ï",
      "ð", "ñ", "ò", "ó", "ô", "õ", "ö", "ø", "ù", "ú", "û", "ü", "ý", "þ",
      "U+0101", "U+0103", "U+0105", "U+0107", "U+0109", "U+010B", "U+010D",
      "U+010F", "U+0111", "U+0113", "U+0115", "U+0117", "U+0119", "U+011B",
      "U+011D", "U+011F", "U+0121", "U+0123", "U+0125", "U+0127", "U+0129",
      "U+012B", "U+012D", "U+012F", "i", "U+0133", "U+0135", "U+0137",
      "U+013A", "U+013C", "U+013E", "U+0140", "U+0142", "U+0144", "U+0146",
      "U+0148", "U+014B", "U+014D", "U+014F", "U+0151", "U+0153", "U+0155",
      "U+0157", "U+0159", "U+015B", "U+015D", "U+015F", "U+0161", "U+0163",
      "U+0165", "U+0167", "U+0169", "U+016B", "U+016D", "U+016F", "U+0171",
      "U+0173", "U+0175", "U+0177", "ÿ", "U+017A", "U+017C", "U+017E",
      "U+0253", "U+0183", "U+0185", "U+0254", "U+0188", "U+0256", "U+0257",
      "U+018C", "U+01DD", "U+0259", "U+025B", "U+0192", "U+0260", "U+0263",
      "U+0269", "U+0268", "U+0199", "U+026F", "U+0272", "U+0275", "U+01A1",
      "U+01A3", "U+01A5", "U+0280", "U+01A8", "U+0283", "U+01AD", "U+0288",
      "U+01B0", "U+028A", "U+028B", "U+01B4", "U+01B6", "U+0292", "U+01B9",
      "U+01BD", "U+01C6", "U+01C6", "U+01C9", "U+01C9", "U+01CC", "U+01CC",
      "U+01CE", "U+01D0", "U+01D2", "U+01D4", "U+01D6", "U+01D8", "U+01DA",
      "U+01DC", "U+01DF", "U+01E1", "U+01E3", "U+01E5", "U+01E7", "U+01E9",
      "U+01EB", "U+01ED", "U+01EF", "U+01F3", "U+01F3", "U+01F5", "U+0195",
      "U+01BF", "U+01F9", "U+01FB", "U+01FD", "U+01FF", "U+0201", "U+0203",
      "U+0205", "U+0207", "U+0209", "U+020B", "U+020D", "U+020F", "U+0211",
      "U+0213", "U+0215", "U+0217", "U+0219", "U+021B", "U+021D", "U+021F",
      "U+019E", "U+0223", "U+0225", "U+0227", "U+0229", "U+022B", "U+022D",
      "U+022F", "U+0231", "U+0233", "U+2C65", "U+023C", "U+019A", "U+2C66",
      "U+0242", "U+0180", "U+0289", "U+028C", "U+0247", "U+0249", "U+024B",
      "U+024D", "U+024F", "U+0371", "U+0373", "U+0377", "U+03F3", "U+03AC",
      "U+03AD", "U+03AE", "U+03AF", "U+03CC", "U+03CD", "U+03CE", "U+03B1",
      "U+03B2", "U+03B3", "U+03B4", "U+03B5", "U+03B6", "U+03B7", "U+03B8",
      "U+03B9", "U+03BA", "U+03BB", "U+03BC", "U+03BD", "U+03BE", "U+03BF",
      "U+03C0", "U+03C1", "U+03C3", "U+03C4", "U+03C5", "U+03C6", "U+03C7",
      "U+03C8", "U+03C9", "U+03CA", "U+03CB", "U+03D7", "U+03D9", "U+03DB",
      "U+03DD", "U+03DF", "U+03E1", "U+03E3", "U+03E5", "U+03E7", "U+03E9",
      "U+03EB", "U+03ED", "U+03EF", "U+03B8", "U+03F8", "U+03F2", "U+03FB",
      "U+037B", "U+037C", "U+037D", "U+0450", "U+0451", "U+0452", "U+0453",
      "U+0454", "U+0455", "U+0456", "U+0457", "U+0458", "U+0459", "U+045A",
      "U+045B", "U+045C", "U+045D", "U+045E", "U+045F", "U+0430", "U+0431",
      "U+0432", "U+0433", "U+0434", "U+0435", "U+0436", "U+0437", "U+0438",
      "U+0439", "U+043A", "U+043B", "U+043C", "U+043D", "U+043E", "U+043F",
      "U+0440", "U+0441", "U+0442", "U+0443", "U+0444", "U+0445", "U+0446",
      "U+0447", "U+0448", "U+0449", "U+044A", "U+044B", "U+044C", "U+044D",
      "U+044E", "U+044F", "U+0461", "U+0463", "U+0465", "U+0467", "U+0469",
      "U+046B", "U+046D", "U+046F", "U+0471", "U+0473", "U+0475", "U+0477",
      "U+0479", "U+047B", "U+047D", "U+047F", "U+0481", "U+048B", "U+048D",
      "U+048F", "U+0491", "U+0493", "U+0495", "U+0497", "U+0499", "U+049B",
      "U+049D", "U+049F", "U+04A1", "U+04A3", "U+04A5", "U+04A7", "U+04A9",
      "U+04AB", "U+04AD", "U+04AF", "U+04B1", "U+04B3", "U+04B5", "U+04B7",
      "U+04B9", "U+04BB", "U+04BD", "U+04BF", "U+04CF", "U+04C2", "U+04C4",
      "U+04C6", "U+04C8", "U+04CA", "U+04CC", "U+04CE", "U+04D1", "U+04D3",
      "U+04D5", "U+04D7", "U+04D9", "U+04DB", "U+04DD", "U+04DF", "U+04E1",
      "U+04E3", "U+04E5", "U+04E7", "U+04E9", "U+04EB", "U+04ED", "U+04EF",
      "U+04F1", "U+04F3", "U+04F5", "U+04F7", "U+04F9", "U+04FB", "U+04FD",
      "U+04FF", "U+0501", "U+0503", "U+0505", "U+0507", "U+0509", "U+050B",
      "U+050D", "U+050F", "U+0511", "U+0513", "U+0515", "U+0517", "U+0519",
      "U+051B", "U+051D", "U+051F", "U+0521", "U+0523", "U+0525", "U+0527",
      "U+0529", "U+052B", "U+052D", "U+052F", "U+0561", "U+0562", "U+0563",
      "U+0564", "U+0565", "U+0566", "U+0567", "U+0568", "U+0569", "U+056A",
      "U+056B", "U+056C", "U+056D", "U+056E", "U+056F", "U+0570", "U+0571",
      "U+0572", "U+0573", "U+0574", "U+0575", "U+0576", "U+0577", "U+0578",
      "U+0579", "U+057A", "U+057B", "U+057C", "U+057D", "U+057E", "U+057F",
      "U+0580", "U+0581", "U+0582", "U+0583", "U+0584", "U+0585", "U+0586",
      "U+2D00", "U+2D01", "U+2D02", "U+2D03", "U+2D04", "U+2D05", "U+2D06",
      "U+2D07", "U+2D08", "U+2D09", "U+2D0A", "U+2D0B", "U+2D0C", "U+2D0D",
      "U+2D0E", "U+2D0F", "U+2D10", "U+2D11", "U+2D12", "U+2D13", "U+2D14",
      "U+2D15", "U+2D16", "U+2D17", "U+2D18", "U+2D19", "U+2D1A", "U+2D1B",
      "U+2D1C", "U+2D1D", "U+2D1E", "U+2D1F", "U+2D20", "U+2D21", "U+2D22",
      "U+2D23", "U+2D24", "U+2D25", "U+2D27", "U+2D2D", "U+AB70", "U+AB71",
      "U+AB72", "U+AB73", "U+AB74", "U+AB75", "U+AB76", "U+AB77", "U+AB78",
      "U+AB79", "U+AB7A", "U+AB7B", "U+AB7C", "U+AB7D", "U+AB7E", "U+AB7F",
      "U+AB80", "U+AB81", "U+AB82", "U+AB83", "U+AB84", "U+AB85", "U+AB86",
      "U+AB87", "U+AB88", "U+AB89", "U+AB8A", "U+AB8B", "U+AB8C", "U+AB8D",
      "U+AB8E", "U+AB8F", "U+AB90", "U+AB91", "U+AB92", "U+AB93", "U+AB94",
      "U+AB95", "U+AB96", "U+AB97", "U+AB98", "U+AB99", "U+AB9A", "U+AB9B",
      "U+AB9C", "U+AB9D", "U+AB9E", "U+AB9F", "U+ABA0", "U+ABA1", "U+ABA2",
      "U+ABA3", "U+ABA4", "U+ABA5", "U+ABA6", "U+ABA7", "U+ABA8", "U+ABA9",
      "U+ABAA", "U+ABAB", "U+ABAC", "U+ABAD", "U+ABAE", "U+ABAF", "U+ABB0",
      "U+ABB1", "U+ABB2", "U+ABB3", "U+ABB4", "U+ABB5", "U+ABB6", "U+ABB7",
      "U+ABB8", "U+ABB9", "U+ABBA", "U+ABBB", "U+ABBC", "U+ABBD", "U+ABBE",
      "U+ABBF", "U+13F8", "U+13F9", "U+13FA", "U+13FB", "U+13FC", "U+13FD",
      "U+10D0", "U+10D1", "U+10D2", "U+10D3", "U+10D4", "U+10D5", "U+10D6",
      "U+10D7", "U+10D8", "U+10D9", "U+10DA", "U+10DB", "U+10DC", "U+10DD",
      "U+10DE", "U+10DF", "U+10E0", "U+10E1", "U+10E2", "U+10E3", "U+10E4",
      "U+10E5", "U+10E6", "U+10E7", "U+10E8", "U+10E9", "U+10EA", "U+10EB",
      "U+10EC", "U+10ED", "U+10EE", "U+10EF", "U+10F0", "U+10F1", "U+10F2",
      "U+10F3", "U+10F4", "U+10F5", "U+10F6", "U+10F7", "U+10F8", "U+10F9",
      "U+10FA", "U+10FD", "U+10FE", "U+10FF", "U+1E01", "U+1E03", "U+1E05",
      "U+1E07", "U+1E09", "U+1E0B", "U+1E0D", "U+1E0F", "U+1E11", "U+1E13",
      "U+1E15", "U+1E17", "U+1E19", "U+1E1B", "U+1E1D", "U+1E1F", "U+1E21",
      "U+1E23", "U+1E25", "U+1E27", "U+1E29", "U+1E2B", "U+1E2D", "U+1E2F",
      "U+1E31", "U+1E33", "U+1E35", "U+1E37", "U+1E39", "U+1E3B", "U+1E3D",
      "U+1E3F", "U+1E41", "U+1E43", "U+1E45", "U+1E47", "U+1E49", "U+1E4B",
      "U+1E4D", "U+1E4F", "U+1E51", "U+1E53", "U+1E55", "U+1E57", "U+1E59",
      "U+1E5B", "U+1E5D", "U+1E5F", "U+1E61", "U+1E63", "U+1E65", "U+1E67",
      "U+1E69", "U+1E6B", "U+1E6D", "U+1E6F", "U+1E71", "U+1E73", "U+1E75",
      "U+1E77", "U+1E79", "U+1E7B", "U+1E7D", "U+1E7F", "U+1E81", "U+1E83",
      "U+1E85", "U+1E87", "U+1E89", "U+1E8B", "U+1E8D", "U+1E8F", "U+1E91",
      "U+1E93", "U+1E95", "ß", "U+1EA1", "U+1EA3", "U+1EA5", "U+1EA7",
      "U+1EA9", "U+1EAB", "U+1EAD", "U+1EAF", "U+1EB1", "U+1EB3", "U+1EB5",
      "U+1EB7", "U+1EB9", "U+1EBB", "U+1EBD", "U+1EBF", "U+1EC1", "U+1EC3",
      "U+1EC5", "U+1EC7", "U+1EC9", "U+1ECB", "U+1ECD", "U+1ECF", "U+1ED1",
      "U+1ED3", "U+1ED5", "U+1ED7", "U+1ED9", "U+1EDB", "U+1EDD", "U+1EDF",
      "U+1EE1", "U+1EE3", "U+1EE5", "U+1EE7", "U+1EE9", "U+1EEB", "U+1EED",
      "U+1EEF", "U+1EF1", "U+1EF3", "U+1EF5", "U+1EF7", "U+1EF9", "U+1EFB",
      "U+1EFD", "U+1EFF", "U+1F00", "U+1F01", "U+1F02", "U+1F03", "U+1F04",
      "U+1F05", "U+1F06", "U+1F07", "U+1F10", "U+1F11", "U+1F12", "U+1F13",
      "U+1F14", "U+1F15", "U+1F20", "U+1F21", "U+1F22", "U+1F23", "U+1F24",
      "U+1F25", "U+1F26", "U+1F27", "U+1F30", "U+1F31", "U+1F32", "U+1F33",
      "U+1F34", "U+1F35", "U+1F36", "U+1F37", "U+1F40", "U+1F41", "U+1F42",
      "U+1F43", "U+1F44", "U+1F45", "U+1F51", "U+1F53", "U+1F55", "U+1F57",
      "U+1F60", "U+1F61", "U+1F62", "U+1F63", "U+1F64", "U+1F65", "U+1F66",
      "U+1F67", "U+1F80", "U+1F81", "U+1F82", "U+1F83", "U+1F84", "U+1F85",
      "U+1F86", "U+1F87", "U+1F90", "U+1F91", "U+1F92", "U+1F93", "U+1F94",
      "U+1F95", "U+1F96", "U+1F97", "U+1FA0", "U+1FA1", "U+1FA2", "U+1FA3",
      "U+1FA4", "U+1FA5", "U+1FA6", "U+1FA7", "U+1FB0", "U+1FB1", "U+1F70",
      "U+1F71", "U+1FB3", "U+1F72", "U+1F73", "U+1F74", "U+1F75", "U+1FC3",
      "U+1FD0", "U+1FD1", "U+1F76", "U+1F77", "U+1FE0", "U+1FE1", "U+1F7A",
      "U+1F7B", "U+1FE5", "U+1F78", "U+1F79", "U+1F7C", "U+1F7D", "U+1FF3",
      "U+03C9", "k", "å", "U+214E", "U+2170", "U+2171", "U+2172", "U+2173",
      "U+2174", "U+2175", "U+2176", "U+2177", "U+2178", "U+2179", "U+217A",
      "U+217B", "U+217C", "U+217D", "U+217E", "U+217F", "U+2184", "U+24D0",
      "U+24D1", "U+24D2", "U+24D3", "U+24D4", "U+24D5", "U+24D6", "U+24D7",
      "U+24D8", "U+24D9", "U+24DA", "U+24DB", "U+24DC", "U+24DD", "U+24DE",
      "U+24DF", "U+24E0", "U+24E1", "U+24E2", "U+24E3", "U+24E4", "U+24E5",
      "U+24E6", "U+24E7", "U+24E8", "U+24E9", "U+2C30", "U+2C31", "U+2C32",
      "U+2C33", "U+2C34", "U+2C35", "U+2C36", "U+2C37", "U+2C38", "U+2C39",
      "U+2C3A", "U+2C3B", "U+2C3C", "U+2C3D", "U+2C3E", "U+2C3F", "U+2C40",
      "U+2C41", "U+2C42", "U+2C43", "U+2C44", "U+2C45", "U+2C46", "U+2C47",
      "U+2C48", "U+2C49", "U+2C4A", "U+2C4B", "U+2C4C", "U+2C4D", "U+2C4E",
      "U+2C4F", "U+2C50", "U+2C51", "U+2C52", "U+2C53", "U+2C54", "U+2C55",
      "U+2C56", "U+2C57", "U+2C58", "U+2C59", "U+2C5A", "U+2C5B", "U+2C5C",
      "U+2C5D", "U+2C5E", "U+2C5F", "U+2C61", "U+026B", "U+1D7D", "U+027D",
      "U+2C68", "U+2C6A", "U+2C6C", "U+0251", "U+0271", "U+0250", "U+0252",
      "U+2C73", "U+2C76", "U+023F", "U+0240", "U+2C81", "U+2C83", "U+2C85",
      "U+2C87", "U+2C89", "U+2C8B", "U+2C8D", "U+2C8F", "U+2C91", "U+2C93",
      "U+2C95", "U+2C97", "U+2C99", "U+2C9B", "U+2C9D", "U+2C9F", "U+2CA1",
      "U+2CA3", "U+2CA5", "U+2CA7", "U+2CA9", "U+2CAB", "U+2CAD", "U+2CAF",
      "U+2CB1", "U+2CB3", "U+2CB5", "U+2CB7", "U+2CB9", "U+2CBB", "U+2CBD",
      "U+2CBF", "U+2CC1", "U+2CC3", "U+2CC5", "U+2CC7", "U+2CC9", "U+2CCB",
      "U+2CCD", "U+2CCF", "U+2CD1", "U+2CD3", "U+2CD5", "U+2CD7", "U+2CD9",
      "U+2CDB", "U+2CDD", "U+2CDF", "U+2CE1", "U+2CE3", "U+2CEC", "U+2CEE",
      "U+2CF3", "U+A641", "U+A643", "U+A645", "U+A647", "U+A649", "U+A64B",
      "U+A64D", "U+A64F", "U+A651", "U+A653", "U+A655", "U+A657", "U+A659",
      "U+A65B", "U+A65D", "U+A65F", "U+A661", "U+A663", "U+A665", "U+A667",
      "U+A669", "U+A66B", "U+A66D", "U+A681", "U+A683", "U+A685", "U+A687",
      "U+A689", "U+A68B", "U+A68D", "U+A68F", "U+A691", "U+A693", "U+A695",
      "U+A697", "U+A699", "U+A69B", "U+A723", "U+A725", "U+A727", "U+A729",
      "U+A72B", "U+A72D", "U+A72F", "U+A733", "U+A735", "U+A737", "U+A739",
      "U+A73B", "U+A73D", "U+A73F", "U+A741", "U+A743", "U+A745", "U+A747",
      "U+A749", "U+A74B", "U+A74D", "U+A74F", "U+A751", "U+A753", "U+A755",
      "U+A757", "U+A759", "U+A75B", "U+A75D", "U+A75F", "U+A761", "U+A763",
      "U+A765", "U+A767", "U+A769", "U+A76B", "U+A76D", "U+A76F", "U+A77A",
      "U+A77C", "U+1D79", "U+A77F", "U+A781", "U+A783", "U+A785", "U+A787",
      "U+A78C", "U+0265", "U+A791", "U+A793", "U+A797", "U+A799", "U+A79B",
      "U+A79D", "U+A79F", "U+A7A1", "U+A7A3", "U+A7A5", "U+A7A7", "U+A7A9",
      "U+0266", "U+025C", "U+0261", "U+026C", "U+026A", "U+029E", "U+0287",
      "U+029D", "U+AB53", "U+A7B5", "U+A7B7", "U+A7B9", "U+A7BB", "U+A7BD",
      "U+A7BF", "U+A7C1", "U+A7C3", "U+A794", "U+0282", "U+1D8E", "U+A7C8",
      "U+A7CA", "U+A7D1", "U+A7D7", "U+A7D9", "U+A7F6", "U+FF41", "U+FF42",
      "U+FF43", "U+FF44", "U+FF45", "U+FF46", "U+FF47", "U+FF48", "U+FF49",
      "U+FF4A", "U+FF4B", "U+FF4C", "U+FF4D", "U+FF4E", "U+FF4F", "U+FF50",
      "U+FF51", "U+FF52", "U+FF53", "U+FF54", "U+FF55", "U+FF56", "U+FF57",
      "U+FF58", "U+FF59", "U+FF5A", "U+10428", "U+10429", "U+1042A",
      "U+1042B", "U+1042C", "U+1042D", "U+1042E", "U+1042F", "U+10430",
      "U+10431", "U+10432", "U+10433", "U+10434", "U+10435", "U+10436",
      "U+10437", "U+10438", "U+10439", "U+1043A", "U+1043B", "U+1043C",
      "U+1043D", "U+1043E", "U+1043F", "U+10440", "U+10441", "U+10442",
      "U+10443", "U+10444", "U+10445", "U+10446", "U+10447", "U+10448",
      "U+10449", "U+1044A", "U+1044B", "U+1044C", "U+1044D", "U+1044E",
      "U+1044F", "U+104D8", "U+104D9", "U+104DA", "U+104DB", "U+104DC",
      "U+104DD", "U+104DE", "U+104DF", "U+104E0", "U+104E1", "U+104E2",
      "U+104E3", "U+104E4", "U+104E5", "U+104E6", "U+104E7", "U+104E8",
      "U+104E9", "U+104EA", "U+104EB", "U+104EC", "U+104ED", "U+104EE",
      "U+104EF", "U+104F0", "U+104F1", "U+104F2", "U+104F3", "U+104F4",
      "U+104F5", "U+104F6", "U+104F7", "U+104F8", "U+104F9", "U+104FA",
      "U+104FB", "U+10597", "U+10598", "U+10599", "U+1059A", "U+1059B",
      "U+1059C", "U+1059D", "U+1059E", "U+1059F", "U+105A0", "U+105A1",
      "U+105A3", "U+105A4", "U+105A5", "U+105A6", "U+105A7", "U+105A8",
      "U+105A9", "U+105AA", "U+105AB", "U+105AC", "U+105AD", "U+105AE",
      "U+105AF", "U+105B0", "U+105B1", "U+105B3", "U+105B4", "U+105B5",
      "U+105B6", "U+105B7", "U+105B8", "U+105B9", "U+105BB", "U+105BC",
      "U+10CC0", "U+10CC1", "U+10CC2", "U+10CC3", "U+10CC4", "U+10CC5",
      "U+10CC6", "U+10CC7", "U+10CC8", "U+10CC9", "U+10CCA", "U+10CCB",
      "U+10CCC", "U+10CCD", "U+10CCE", "U+10CCF", "U+10CD0", "U+10CD1",
      "U+10CD2", "U+10CD3", "U+10CD4", "U+10CD5", "U+10CD6", "U+10CD7",
      "U+10CD8", "U+10CD9", "U+10CDA", "U+10CDB", "U+10CDC", "U+10CDD",
      "U+10CDE", "U+10CDF", "U+10CE0", "U+10CE1", "U+10CE2", "U+10CE3",
      "U+10CE4", "U+10CE5", "U+10CE6", "U+10CE7", "U+10CE8", "U+10CE9",
      "U+10CEA", "U+10CEB", "U+10CEC", "U+10CED", "U+10CEE", "U+10CEF",
      "U+10CF0", "U+10CF1", "U+10CF2", "U+118C0", "U+118C1", "U+118C2",
      "U+118C3", "U+118C4", "U+118C5", "U+118C6", "U+118C7", "U+118C8",
      "U+118C9", "U+118CA", "U+118CB", "U+118CC", "U+118CD", "U+118CE",
      "U+118CF", "U+118D0", "U+118D1", "U+118D2", "U+118D3", "U+118D4",
      "U+118D5", "U+118D6", "U+118D7", "U+118D8", "U+118D9", "U+118DA",
      "U+118DB", "U+118DC", "U+118DD", "U+118DE", "U+118DF", "U+16E60",
      "U+16E61", "U+16E62", "U+16E63", "U+16E64", "U+16E65", "U+16E66",
      "U+16E67", "U+16E68", "U+16E69", "U+16E6A", "U+16E6B", "U+16E6C",
      "U+16E6D", "U+16E6E", "U+16E6F", "U+16E70", "U+16E71", "U+16E72",
      "U+16E73", "U+16E74", "U+16E75", "U+16E76", "U+16E77", "U+16E78",
      "U+16E79", "U+16E7A", "U+16E7B", "U+16E7C", "U+16E7D", "U+16E7E",
      "U+16E7F", "U+1E922", "U+1E923", "U+1E924", "U+1E925", "U+1E926",
      "U+1E927", "U+1E928", "U+1E929", "U+1E92A", "U+1E92B", "U+1E92C",
      "U+1E92D", "U+1E92E", "U+1E92F", "U+1E930", "U+1E931", "U+1E932",
      "U+1E933", "U+1E934", "U+1E935", "U+1E936", "U+1E937", "U+1E938",
      "U+1E939", "U+1E93A", "U+1E93B", "U+1E93C", "U+1E93D", "U+1E93E",
      "U+1E93F", "U+1E940", "U+1E941", "U+1E942", "U+1E943"
    >>

\* the characters that str.lower() changes
UpperCase == {UpperLetters[i] : i \in 1..Len(UpperLetters)}

\* the lower-case character of every character that has one
LowerCase ==
    [c \in UpperCase |->
        LowerLetters[CHOOSE i \in 1..Len(UpperLetters) : UpperLetters[i] = c]]

\* the lower-case character of one character
LowerChar(c) == IF c \in UpperCase THEN LowerCase[c] ELSE c

\* str.lower() of one character: U+0130 becomes i and the combining dot
\* U+0307
lower_of(c) == IF c = "U+0130" THEN <<"i", "U+0307">> ELSE <<LowerChar(c)>>

\* two characters are the same to re.IGNORECASE: their lower-case
\* characters are equal, or they are i and the dotless i U+0131, or s and
\* the long s U+017F
fold(c) ==
    LET l == LowerChar(c) IN
    IF l = "U+0131" THEN "i" ELSE IF l = "U+017F" THEN "s" ELSE l

\* a function on 1..n, as the sequence of its values
AsSeq(f) == SubSeq(f, 1, Len(f))

\* the case-ignorable characters: str.lower() skips them when it looks for
\* the cased letters around a capital sigma
CaseIgnorable ==
    {
      "'", ".", ":", "^", "U+0060", "¨", "­", "¯", "´", "·", "¸", "U+02B0",
      "U+02B1", "U+02B2", "U+02B3", "U+02B4", "U+02B5", "U+02B6", "U+02B7",
      "U+02B8", "U+02B9", "U+02BA", "U+02BB", "U+02BC", "U+02BD", "U+02BE",
      "U+02BF", "U+02C0", "U+02C1", "U+02C2", "U+02C3", "U+02C4", "U+02C5",
      "U+02C6", "U+02C7", "U+02C8", "U+02C9", "U+02CA", "U+02CB", "U+02CC",
      "U+02CD", "U+02CE", "U+02CF", "U+02D0", "U+02D1", "U+02D2", "U+02D3",
      "U+02D4", "U+02D5", "U+02D6", "U+02D7", "U+02D8", "U+02D9", "U+02DA",
      "U+02DB", "U+02DC", "U+02DD", "U+02DE", "U+02DF", "U+02E0", "U+02E1",
      "U+02E2", "U+02E3", "U+02E4", "U+02E5", "U+02E6", "U+02E7", "U+02E8",
      "U+02E9", "U+02EA", "U+02EB", "U+02EC", "U+02ED", "U+02EE", "U+02EF",
      "U+02F0", "U+02F1", "U+02F2", "U+02F3", "U+02F4", "U+02F5", "U+02F6",
      "U+02F7", "U+02F8", "U+02F9", "U+02FA", "U+02FB", "U+02FC", "U+02FD",
      "U+02FE", "U+02FF", "U+0300", "U+0301", "U+0302", "U+0303", "U+0304",
      "U+0305", "U+0306", "U+0307", "U+0308", "U+0309", "U+030A", "U+030B",
      "U+030C", "U+030D", "U+030E", "U+030F", "U+0310", "U+0311", "U+0312",
      "U+0313", "U+0314", "U+0315", "U+0316", "U+0317", "U+0318", "U+0319",
      "U+031A", "U+031B", "U+031C", "U+031D", "U+031E", "U+031F", "U+0320",
      "U+0321", "U+0322", "U+0323", "U+0324", "U+0325", "U+0326", "U+0327",
      "U+0328", "U+0329", "U+032A", "U+032B", "U+032C", "U+032D", "U+032E",
      "U+032F", "U+0330", "U+0331", "U+0332", "U+0333", "U+0334", "U+0335",
      "U+0336", "U+0337", "U+0338", "U+0339", "U+033A", "U+033B", "U+033C",
      "U+033D", "U+033E", "U+033F", "U+0340", "U+0341", "U+0342", "U+0343",
      "U+0344", "U+0345", "U+0346", "U+0347", "U+0348", "U+0349", "U+034A",
      "U+034B", "U+034C", "U+034D", "U+034E", "U+034F", "U+0350", "U+0351",
      "U+0352", "U+0353", "U+0354", "U+0355", "U+0356", "U+0357", "U+0358",
      "U+0359", "U+035A", "U+035B", "U+035C", "U+035D", "U+035E", "U+035F",
      "U+0360", "U+0361", "U+0362", "U+0363", "U+0364", "U+0365", "U+0366",
      "U+0367", "U+0368", "U+0369", "U+036A", "U+036B", "U+036C", "U+036D",
      "U+036E", "U+036F", "U+0374", "U+0375", "U+037A", "U+0384", "U+0385",
      "U+0387", "U+0483", "U+0484", "U+0485", "U+0486", "U+0487", "U+0488",
      "U+0489", "U+0559", "U+055F", "U+0591", "U+0592", "U+0593", "U+0594",
      "U+0595", "U+0596", "U+0597", "U+0598", "U+0599", "U+059A", "U+059B",
      "U+059C", "U+059D", "U+059E", "U+059F", "U+05A0", "U+05A1", "U+05A2",
      "U+05A3", "U+05A4", "U+05A5", "U+05A6", "U+05A7", "U+05A8", "U+05A9",
      "U+05AA", "U+05AB", "U+05AC", "U+05AD", "U+05AE", "U+05AF", "U+05B0",
      "U+05B1", "U+05B2", "U+05B3", "U+05B4", "U+05B5", "U+05B6", "U+05B7",
      "U+05B8", "U+05B9", "U+05BA", "U+05BB", "U+05BC", "U+05BD", "U+05BF",
      "U+05C1", "U+05C2", "U+05C4", "U+05C5", "U+05C7", "U+05F4", "U+0600",
      "U+0601", "U+0602", "U+0603", "U+0604", "U+0605", "U+0610", "U+0611",
      "U+0612", "U+0613", "U+0614", "U+0615", "U+0616", "U+0617", "U+0618",
      "U+0619", "U+061A", "U+061C", "U+0640", "U+064B", "U+064C", "U+064D",
      "U+064E", "U+064F", "U+0650", "U+0651", "U+0652", "U+0653", "U+0654",
      "U+0655", "U+0656", "U+0657", "U+0658", "U+0659", "U+065A", "U+065B",
      "U+065C", "U+065D", "U+065E", "U+065F", "U+0670", "U+06D6", "U+06D7",
      "U+06D8", "U+06D9", "U+06DA", "U+06DB", "U+06DC", "U+06DD", "U+06DF",
      "U+06E0", "U+06E1", "U+06E2", "U+06E3", "U+06E4", "U+06E5", "U+06E6",
      "U+06E7", "U+06E8", "U+06EA", "U+06EB", "U+06EC", "U+06ED", "U+070F",
      "U+0711", "U+0730", "U+0731", "U+0732", "U+0733", "U+0734", "U+0735",
      "U+0736", "U+0737", "U+0738", "U+0739", "U+073A", "U+073B", "U+073C",
      "U+073D", "U+073E", "U+073F", "U+0740", "U+0741", "U+0742", "U+0743",
      "U+0744", "U+0745", "U+0746", "U+0747", "U+0748", "U+0749", "U+074A",
      "U+07A6", "U+07A7", "U+07A8", "U+07A9", "U+07AA", "U+07AB", "U+07AC",
      "U+07AD", "U+07AE", "U+07AF", "U+07B0", "U+07EB", "U+07EC", "U+07ED",
      "U+07EE", "U+07EF", "U+07F0", "U+07F1", "U+07F2", "U+07F3", "U+07F4",
      "U+07F5", "U+07FA", "U+07FD", "U+0816", "U+0817", "U+0818", "U+0819",
      "U+081A", "U+081B", "U+081C", "U+081D", "U+081E", "U+081F", "U+0820",
      "U+0821", "U+0822", "U+0823", "U+0824", "U+0825", "U+0826", "U+0827",
      "U+0828", "U+0829", "U+082A", "U+082B", "U+082C", "U+082D", "U+0859",
      "U+085A", "U+085B", "U+0888", "U+0890", "U+0891", "U+0898", "U+0899",
      "U+089A", "U+089B", "U+089C", "U+089D", "U+089E", "U+089F", "U+08C9",
      "U+08CA", "U+08CB", "U+08CC", "U+08CD", "U+08CE", "U+08CF", "U+08D0",
      "U+08D1", "U+08D2", "U+08D3", "U+08D4", "U+08D5", "U+08D6", "U+08D7",
      "U+08D8", "U+08D9", "U+08DA", "U+08DB", "U+08DC", "U+08DD", "U+08DE",
      "U+08DF", "U+08E0", "U+08E1", "U+08E2", "U+08E3", "U+08E4", "U+08E5",
      "U+08E6", "U+08E7", "U+08E8", "U+08E9", "U+08EA", "U+08EB", "U+08EC",
      "U+08ED", "U+08EE", "U+08EF", "U+08F0", "U+08F1", "U+08F2", "U+08F3",
      "U+08F4", "U+08F5", "U+08F6", "U+08F7", "U+08F8", "U+08F9", "U+08FA",
      "U+08FB", "U+08FC", "U+08FD", "U+08FE", "U+08FF", "U+0900", "U+0901",
      "U+0902", "U+093A", "U+093C", "U+0941", "U+0942", "U+0943", "U+0944",
      "U+0945", "U+0946", "U+0947", "U+0948", "U+094D", "U+0951", "U+0952",
      "U+0953", "U+0954", "U+0955", "U+0956", "U+0957", "U+0962", "U+0963",
      "U+0971", "U+0981", "U+09BC", "U+09C1", "U+09C2", "U+09C3", "U+09C4",
      "U+09CD", "U+09E2", "U+09E3", "U+09FE", "U+0A01", "U+0A02", "U+0A3C",
      "U+0A41", "U+0A42", "U+0A47", "U+0A48", "U+0A4B", "U+0A4C", "U+0A4D",
      "U+0A51", "U+0A70", "U+0A71", "U+0A75", "U+0A81", "U+0A82", "U+0ABC",
      "U+0AC1", "U+0AC2", "U+0AC3", "U+0AC4", "U+0AC5", "U+0AC7", "U+0AC8",
      "U+0ACD", "U+0AE2", "U+0AE3", "U+0AFA", "U+0AFB", "U+0AFC", "U+0AFD",
      "U+0AFE", "U+0AFF", "U+0B01", "U+0B3C", "U+0B3F", "U+0B41", "U+0B42",
      "U+0B43", "U+0B44", "U+0B4D", "U+0B55", "U+0B56", "U+0B62", "U+0B63",
      "U+0B82", "U+0BC0", "U+0BCD", "U+0C00", "U+0C04", "U+0C3C", "U+0C3E",
      "U+0C3F", "U+0C40", "U+0C46", "U+0C47", "U+0C48", "U+0C4A", "U+0C4B",
      "U+0C4C", "U+0C4D", "U+0C55", "U+0C56", "U+0C62", "U+0C63", "U+0C81",
      "U+0CBC", "U+0CBF", "U+0CC6", "U+0CCC", "U+0CCD", "U+0CE2", "U+0CE3",
      "U+0D00", "U+0D01", "U+0D3B", "U+0D3C", "U+0D41", "U+0D42", "U+0D43",
      "U+0D44", "U+0D4D", "U+0D62", "U+0D63", "U+0D81", "U+0DCA", "U+0DD2",
      "U+0DD3", "U+0DD4", "U+0DD6", "U+0E31", "U+0E34", "U+0E35", "U+0E36",
      "U+0E37", "U+0E38", "U+0E39", "U+0E3A", "U+0E46", "U+0E47", "U+0E48",
      "U+0E49", "U+0E4A", "U+0E4B", "U+0E4C", "U+0E4D", "U+0E4E", "U+0EB1",
      "U+0EB4", "U+0EB5", "U+0EB6", "U+0EB7", "U+0EB8", "U+0EB9", "U+0EBA",
      "U+0EBB", "U+0EBC", "U+0EC6", "U+0EC8", "U+0EC9", "U+0ECA", "U+0ECB",
      "U+0ECC", "U+0ECD", "U+0F18", "U+0F19", "U+0F35", "U+0F37", "U+0F39",
      "U+0F71", "U+0F72", "U+0F73", "U+0F74", "U+0F75", "U+0F76", "U+0F77",
      "U+0F78", "U+0F79", "U+0F7A", "U+0F7B", "U+0F7C", "U+0F7D", "U+0F7E",
      "U+0F80", "U+0F81", "U+0F82", "U+0F83", "U+0F84", "U+0F86", "U+0F87",
      "U+0F8D", "U+0F8E", "U+0F8F", "U+0F90", "U+0F91", "U+0F92", "U+0F93",
      "U+0F94", "U+0F95", "U+0F96", "U+0F97", "U+0F99", "U+0F9A", "U+0F9B",
      "U+0F9C", "U+0F9D", "U+0F9E", "U+0F9F", "U+0FA0", "U+0FA1", "U+0FA2",
      "U+0FA3", "U+0FA4", "U+0FA5", "U+0FA6", "U+0FA7", "U+0FA8", "U+0FA9",
      "U+0FAA", "U+0FAB", "U+0FAC", "U+0FAD", "U+0FAE", "U+0FAF", "U+0FB0",
      "U+0FB1", "U+0FB2", "U+0FB3", "U+0FB4", "U+0FB5", "U+0FB6", "U+0FB7",
      "U+0FB8", "U+0FB9", "U+0FBA", "U+0FBB", "U+0FBC", "U+0FC6", "U+102D",
      "U+102E", "U+102F", "U+1030", "U+1032", "U+1033", "U+1034", "U+1035",
      "U+1036", "U+1037", "U+1039", "U+103A", "U+103D", "U+103E", "U+1058",
      "U+1059", "U+105E", "U+105F", "U+1060", "U+1071", "U+1072", "U+1073",
      "U+1074", "U+1082", "U+1085", "U+1086", "U+108D", "U+109D", "U+10FC",
      "U+135D", "U+135E", "U+135F", "U+1712", "U+1713", "U+1714", "U+1732",
      "U+1733", "U+1752", "U+1753", "U+1772", "U+1773", "U+17B4", "U+17B5",
      "U+17B7", "U+17B8", "U+17B9", "U+17BA", "U+17BB", "U+17BC", "U+17BD",
      "U+17C6", "U+17C9", "U+17CA", "U+17CB", "U+17CC", "U+17CD", "U+17CE",
      "U+17CF", "U+17D0", "U+17D1", "U+17D2", "U+17D3", "U+17D7", "U+17DD",
      "U+180B", "U+180C", "U+180D", "U+180E", "U+180F", "U+1843", "U+1885",
      "U+1886", "U+18A9", "U+1920", "U+1921", "U+1922", "U+1927", "U+1928",
      "U+1932", "U+1939", "U+193A", "U+193B", "U+1A17", "U+1A18", "U+1A1B",
      "U+1A56", "U+1A58", "U+1A59", "U+1A5A", "U+1A5B", "U+1A5C", "U+1A5D",
      "U+1A5E", "U+1A60", "U+1A62", "U+1A65", "U+1A66", "U+1A67", "U+1A68",
      "U+1A69", "U+1A6A", "U+1A6B", "U+1A6C", "U+1A73", "U+1A74", "U+1A75",
      "U+1A76", "U+1A77", "U+1A78", "U+1A79", "U+1A7A", "U+1A7B", "U+1A7C",
      "U+1A7F", "U+1AA7", "U+1AB0", "U+1AB1", "U+1AB2", "U+1AB3", "U+1AB4",
      "U+1AB5", "U+1AB6", "U+1AB7", "U+1AB8", "U+1AB9", "U+1ABA", "U+1ABB",
      "U+1ABC", "U+1ABD", "U+1ABE", "U+1ABF", "U+1AC0", "U+1AC1", "U+1AC2",
      "U+1AC3", "U+1AC4", "U+1AC5", "U+1AC6", "U+1AC7", "U+1AC8", "U+1AC9",
      "U+1ACA", "U+1ACB", "U+1ACC", "U+1ACD", "U+1ACE", "U+1B00", "U+1B01",
      "U+1B02", "U+1B03", "U+1B34", "U+1B36", "U+1B37", "U+1B38", "U+1B39",
      "U+1B3A", "U+1B3C", "U+1B42", "U+1B6B", "U+1B6C", "U+1B6D", "U+1B6E",
      "U+1B6F", "U+1B70", "U+1B71", "U+1B72", "U+1B73", "U+1B80", "U+1B81",
      "U+1BA2", "U+1BA3", "U+1BA4", "U+1BA5", "U+1BA8", "U+1BA9", "U+1BAB",
      "U+1BAC", "U+1BAD", "U+1BE6", "U+1BE8", "U+1BE9", "U+1BED", "U+1BEF",
      "U+1BF0", "U+1BF1", "U+1C2C", "U+1C2D", "U+1C2E", "U+1C2F", "U+1C30",
      "U+1C31", "U+1C32", "U+1C33", "U+1C36", "U+1C37", "U+1C78", "U+1C79",
      "U+1C7A", "U+1C7B", "U+1C7C", "U+1C7D", "U+1CD0", "U+1CD1", "U+1CD2",
      "U+1CD4", "U+1CD5", "U+1CD6", "U+1CD7", "U+1CD8", "U+1CD9", "U+1CDA",
      "U+1CDB", "U+1CDC", "U+1CDD", "U+1CDE", "U+1CDF", "U+1CE0", "U+1CE2",
      "U+1CE3", "U+1CE4", "U+1CE5", "U+1CE6", "U+1CE7", "U+1CE8", "U+1CED",
      "U+1CF4", "U+1CF8", "U+1CF9", "U+1D2C", "U+1D2D", "U+1D2E", "U+1D2F",
      "U+1D30", "U+1D31", "U+1D32", "U+1D33", "U+1D34", "U+1D35", "U+1D36",
      "U+1D37", "U+1D38", "U+1D39", "U+1D3A", "U+1D3B", "U+1D3C", "U+1D3D",
      "U+1D3E", "U+1D3F", "U+1D40", "U+1D41", "U+1D42", "U+1D43", "U+1D44",
      "U+1D45", "U+1D46", "U+1D47", "U+1D48", "U+1D49", "U+1D4A", "U+1D4B",
      "U+1D4C", "U+1D4D", "U+1D4E", "U+1D4F", "U+1D50", "U+1D51", "U+1D52",
      "U+1D53", "U+1D54", "U+1D55", "U+1D56", "U+1D57", "U+1D58", "U+1D59",
      "U+1D5A", "U+1D5B", "U+1D5C", "U+1D5D", "U+1D5E", "U+1D5F", "U+1D60",
      "U+1D61", "U+1D62", "U+1D63", "U+1D64", "U+1D65", "U+1D66", "U+1D67",
      "U+1D68", "U+1D69", "U+1D6A", "U+1D78", "U+1D9B", "U+1D9C", "U+1D9D",
      "U+1D9E", "U+1D9F", "U+1DA0", "U+1DA1", "U+1DA2", "U+1DA3", "U+1DA4",
      "U+1DA5", "U+1DA6", "U+1DA7", "U+1DA8", "U+1DA9", "U+1DAA", "U+1DAB",
      "U+1DAC", "U+1DAD", "U+1DAE", "U+1DAF", "U+1DB0", "U+1DB1", "U+1DB2",
      "U+1DB3", "U+1DB4", "U+1DB5", "U+1DB6", "U+1DB7", "U+1DB8", "U+1DB9",
      "U+1DBA", "U+1DBB", "U+1DBC", "U+1DBD", "U+1DBE", "U+1DBF", "U+1DC0",
      "U+1DC1", "U+1DC2", "U+1DC3", "U+1DC4", "U+1DC5", "U+1DC6", "U+1DC7",
      "U+1DC8", "U+1DC9", "U+1DCA", "U+1DCB", "U+1DCC", "U+1DCD", "U+1DCE",
      "U+1DCF", "U+1DD0", "U+1DD1", "U+1DD2", "U+1DD3", "U+1DD4", "U+1DD5",
      "U+1DD6", "U+1DD7", "U+1DD8", "U+1DD9", "U+1DDA", "U+1DDB", "U+1DDC",
      "U+1DDD", "U+1DDE", "U+1DDF", "U+1DE0", "U+1DE1", "U+1DE2", "U+1DE3",
      "U+1DE4", "U+1DE5", "U+1DE6", "U+1DE7", "U+1DE8", "U+1DE9", "U+1DEA",
      "U+1DEB", "U+1DEC", "U+1DED", "U+1DEE", "U+1DEF", "U+1DF0", "U+1DF1",
      "U+1DF2", "U+1DF3", "U+1DF4", "U+1DF5", "U+1DF6", "U+1DF7", "U+1DF8",
      "U+1DF9", "U+1DFA", "U+1DFB", "U+1DFC", "U+1DFD", "U+1DFE", "U+1DFF",
      "U+1FBD", "U+1FBF", "U+1FC0", "U+1FC1", "U+1FCD", "U+1FCE", "U+1FCF",
      "U+1FDD", "U+1FDE", "U+1FDF", "U+1FED", "U+1FEE", "U+1FEF", "U+1FFD",
      "U+1FFE", "U+200B", "U+200C", "U+200D", "U+200E", "U+200F", "U+2018",
      "U+2019", "U+2024", "U+2027", "U+202A", "U+202B", "U+202C", "U+202D",
      "U+202E", "U+2060", "U+2061", "U+2062", "U+2063", "U+2064", "U+2066",
      "U+2067", "U+2068", "U+2069", "U+206A", "U+206B", "U+206C", "U+206D",
      "U+206E", "U+206F", "U+2071", "U+207F", "U+2090", "U+2091", "U+2092",
      "U+2093", "U+2094", "U+2095", "U+2096", "U+2097", "U+2098", "U+2099",
      "U+209A", "U+209B", "U+209C", "U+20D0", "U+20D1", "U+20D2", "U+20D3",
      "U+20D4", "U+20D5", "U+20D6", "U+20D7", "U+20D8", "U+20D9", "U+20DA",
      "U+20DB", "U+20DC", "U+20DD", "U+20DE", "U+20DF", "U+20E0", "U+20E1",
      "U+20E2", "U+20E3", "U+20E4", "U+20E5", "U+20E6", "U+20E7", "U+20E8",
      "U+20E9", "U+20EA", "U+20EB", "U+20EC", "U+20ED", "U+20EE", "U+20EF",
      "U+20F0", "U+2C7C", "U+2C7D", "U+2CEF", "U+2CF0", "U+2CF1", "U+2D6F",
      "U+2D7F", "U+2DE0", "U+2DE1", "U+2DE2", "U+2DE3", "U+2DE4", "U+2DE5",
      "U+2DE6", "U+2DE7", "U+2DE8", "U+2DE9", "U+2DEA", "U+2DEB", "U+2DEC",
      "U+2DED", "U+2DEE", "U+2DEF", "U+2DF0", "U+2DF1", "U+2DF2", "U+2DF3",
      "U+2DF4", "U+2DF5", "U+2DF6", "U+2DF7", "U+2DF8", "U+2DF9", "U+2DFA",
      "U+2DFB", "U+2DFC", "U+2DFD", "U+2DFE", "U+2DFF", "U+2E2F", "U+3005",
      "U+302A", "U+302B", "U+302C", "U+302D", "U+3031", "U+3032", "U+3033",
      "U+3034", "U+3035", "U+303B", "U+3099", "U+309A", "U+309B", "U+309C",
      "U+309D", "U+309E", "U+30FC", "U+30FD", "U+30FE", "U+A015", "U+A4F8",
      "U+A4F9", "U+A4FA", "U+A4FB", "U+A4FC", "U+A4FD", "U+A60C", "U+A66F",
      "U+A670", "U+A671", "U+A672", "U+A674", "U+A675", "U+A676", "U+A677",
      "U+A678", "U+A679", "U+A67A", "U+A67B", "U+A67C", "U+A67D", "U+A67F",
      "U+A69C", "U+A69D", "U+A69E", "U+A69F", "U+A6F0", "U+A6F1", "U+A700",
      "U+A701", "U+A702", "U+A703", "U+A704", "U+A705", "U+A706", "U+A707",
      "U+A708", "U+A709", "U+A70A", "U+A70B", "U+A70C", "U+A70D", "U+A70E",
      "U+A70F", "U+A710", "U+A711", "U+A712", "U+A713", "U+A714", "U+A715",
      "U+A716", "U+A717", "U+A718", "U+A719", "U+A71A", "U+A71B", "U+A71C",
      "U+A71D", "U+A71E", "U+A71F", "U+A720", "U+A721", "U+A770", "U+A788",
      "U+A789", "U+A78A", "U+A7F2", "U+A7F3", "U+A7F4", "U+A7F8", "U+A7F9",
      "U+A802", "U+A806", "U+A80B", "U+A825", "U+A826", "U+A82C", "U+A8C4",
      "U+A8C5", "U+A8E0", "U+A8E1", "U+A8E2", "U+A8E3", "U+A8E4", "U+A8E5",
      "U+A8E6", "U+A8E7", "U+A8E8", "U+A8E9", "U+A8EA", "U+A8EB", "U+A8EC",
      "U+A8ED", "U+A8EE", "U+A8EF", "U+A8F0", "U+A8F1", "U+A8FF", "U+A926",
      "U+A927", "U+A928", "U+A929", "U+A92A", "U+A92B", "U+A92C", "U+A92D",
      "U+A947", "U+A948", "U+A949", "U+A94A", "U+A94B", "U+A94C", "U+A94D",
      "U+A94E", "U+A94F", "U+A950", "U+A951", "U+A980", "U+A981", "U+A982",
      "U+A9B3", "U+A9B6", "U+A9B7", "U+A9B8", "U+A9B9", "U+A9BC", "U+A9BD",
      "U+A9CF", "U+A9E5", "U+A9E6", "U+AA29", "U+AA2A", "U+AA2B", "U+AA2C",
      "U+AA2D", "U+AA2E", "U+AA31", "U+AA32", "U+AA35", "U+AA36", "U+AA43",
      "U+AA4C", "U+AA70", "U+AA7C", "U+AAB0", "U+AAB2", "U+AAB3", "U+AAB4",
      "U+AAB7", "U+AAB8", "U+AABE", "U+AABF", "U+AAC1", "U+AADD", "U+AAEC",
      "U+AAED", "U+AAF3", "U+AAF4", "U+AAF6", "U+AB5B", "U+AB5C", "U+AB5D",
      "U+AB5E", "U+AB5F", "U+AB69", "U+AB6A", "U+AB6B", "U+ABE5", "U+ABE8",
      "U+ABED", "U+FB1E", "U+FBB2", "U+FBB3", "U+FBB4", "U+FBB5", "U+FBB6",
      "U+FBB7", "U+FBB8", "U+FBB9", "U+FBBA", "U+FBBB", "U+FBBC", "U+FBBD",
      "U+FBBE", "U+FBBF", "U+FBC0", "U+FBC1", "U+FBC2", "U+FE00", "U+FE01",
      "U+FE02", "U+FE03", "U+FE04", "U+FE05", "U+FE06", "U+FE07", "U+FE08",
      "U+FE09", "U+FE0A", "U+FE0B", "U+FE0C", "U+FE0D", "U+FE0E", "U+FE0F",
      "U+FE13", "U+FE20", "U+FE21", "U+FE22", "U+FE23", "U+FE24", "U+FE25",
      "U+FE26", "U+FE27", "U+FE28", "U+FE29", "U+FE2A", "U+FE2B", "U+FE2C",
      "U+FE2D", "U+FE2E", "U+FE2F", "U+FE52", "U+FE55", "U+FEFF", "U+FF07",
      "U+FF0E", "U+FF1A", "U+FF3E", "U+FF40", "U+FF70", "U+FF9E", "U+FF9F",
      "U+FFE3", "U+FFF9", "U+FFFA", "U+FFFB", "U+101FD", "U+102E0",
      "U+10376", "U+10377", "U+10378", "U+10379", "U+1037A", "U+10780",
      "U+10781", "U+10782", "U+10783", "U+10784", "U+10785", "U+10787",
      "U+10788", "U+10789", "U+1078A", "U+1078B", "U+1078C", "U+1078D",
      "U+1078E", "U+1078F", "U+10790", "U+10791", "U+10792", "U+10793",
      "U+10794", "U+10795", "U+10796", "U+10797", "U+10798", "U+10799",
      "U+1079A", "U+1079B", "U+1079C", "U+1079D", "U+1079E", "U+1079F",
      "U+107A0", "U+107A1", "U+107A2", "U+107A3", "U+107A4", "U+107A5",
      "U+107A6", "U+107A7", "U+107A8", "U+107A9", "U+107AA", "U+107AB",
      "U+107AC", "U+107AD", "U+107AE", "U+107AF", "U+107B0", "U+107B2",
      "U+107B3", "U+107B4", "U+107B5", "U+107B6", "U+107B7", "U+107B8",
      "U+107B9", "U+107BA", "U+10A01", "U+10A02", "U+10A03", "U+10A05",
      "U+10A06", "U+10A0C", "U+10A0D", "U+10A0E", "U+10A0F", "U+10A38",
      "U+10A39", "U+10A3A", "U+10A3F", "U+10AE5", "U+10AE6", "U+10D24",
      "U+10D25", "U+10D26", "U+10D27", "U+10EAB", "U+10EAC", "U+10F46",
      "U+10F47", "U+10F48", "U+10F49", "U+10F4A", "U+10F4B", "U+10F4C",
      "U+10F4D", "U+10F4E", "U+10F4F", "U+10F50", "U+10F82", "U+10F83",
      "U+10F84", "U+10F85", "U+11001", "U+11038", "U+11039", "U+1103A",
      "U+1103B", "U+1103C", "U+1103D", "U+1103E", "U+1103F", "U+11040",
      "U+11041", "U+11042", "U+11043", "U+11044", "U+11045", "U+11046",
      "U+11070", "U+11073", "U+11074", "U+1107F", "U+11080", "U+11081",
      "U+110B3", "U+110B4", "U+110B5", "U+110B6", "U+110B9", "U+110BA",
      "U+110BD", "U+110C2", "U+110CD", "U+11100", "U+11101", "U+11102",
      "U+11127", "U+11128", "U+11129", "U+1112A", "U+1112B", "U+1112D",
      "U+1112E", "U+1112F", "U+11130", "U+11131", "U+11132", "U+11133",
      "U+11134", "U+11173", "U+11180", "U+11181", "U+111B6", "U+111B7",
      "U+111B8", "U+111B9", "U+111BA", "U+111BB", "U+111BC", "U+111BD",
      "U+111BE", "U+111C9", "U+111CA", "U+111CB", "U+111CC", "U+111CF",
      "U+1122F", "U+11230", "U+11231", "U+11234", "U+11236", "U+11237",
      "U+1123E", "U+112DF", "U+112E3", "U+112E4", "U+112E5", "U+112E6",
      "U+112E7", "U+112E8", "U+112E9", "U+112EA", "U+11300", "U+11301",
      "U+1133B", "U+1133C", "U+11340", "U+11366", "U+11367", "U+11368",
      "U+11369", "U+1136A", "U+1136B", "U+1136C", "U+11370", "U+11371",
      "U+11372", "U+11373", "U+11374", "U+11438", "U+11439", "U+1143A",
      "U+1143B", "U+1143C", "U+1143D", "U+1143E", "U+1143F", "U+11442",
      "U+11443", "U+11444", "U+11446", "U+1145E", "U+114B3", "U+114B4",
      "U+114B5", "U+114B6", "U+114B7", "U+114B8", "U+114BA", "U+114BF",
      "U+114C0", "U+114C2", "U+114C3", "U+115B2", "U+115B3", "U+115B4",
      "U+115B5", "U+115BC", "U+115BD", "U+115BF", "U+115C0", "U+115DC",
      "U+115DD", "U+11633", "U+11634", "U+11635", "U+11636", "U+11637",
      "U+11638", "U+11639", "U+1163A", "U+1163D", "U+1163F", "U+11640",
      "U+116AB", "U+116AD", "U+116B0", "U+116B1", "U+116B2", "U+116B3",
      "U+116B4", "U+116B5", "U+116B7", "U+1171D", "U+1171E", "U+1171F",
      "U+11722", "U+11723", "U+11724", "U+11725", "U+11727", "U+11728",
      "U+11729", "U+1172A", "U+1172B", "U+1182F", "U+11830", "U+11831",
      "U+11832", "U+11833", "U+11834", "U+11835", "U+11836", "U+11837",
      "U+11839", "U+1183A", "U+1193B", "U+1193C", "U+1193E", "U+11943",
      "U+119D4", "U+119D5", "U+119D6", "U+119D7", "U+119DA", "U+119DB",
      "U+119E0", "U+11A01", "U+11A02", "U+11A03", "U+11A04", "U+11A05",
      "U+11A06", "U+11A07", "U+11A08", "U+11A09", "U+11A0A", "U+11A33",
      "U+11A34", "U+11A35", "U+11A36", "U+11A37", "U+11A38", "U+11A3B",
      "U+11A3C", "U+11A3D", "U+11A3E", "U+11A47", "U+11A51", "U+11A52",
      "U+11A53", "U+11A54", "U+11A55", "U+11A56", "U+11A59", "U+11A5A",
      "U+11A5B", "U+11A8A", "U+11A8B", "U+11A8C", "U+11A8D", "U+11A8E",
      "U+11A8F", "U+11A90", "U+11A91", "U+11A92", "U+11A93", "U+11A94",
      "U+11A95", "U+11A96", "U+11A98", "U+11A99", "U+11C30", "U+11C31",
      "U+11C32", "U+11C33", "U+11C34", "U+11C35", "U+11C36", "U+11C38",
      "U+11C39", "U+11C3A", "U+11C3B", "U+11C3C", "U+11C3D", "U+11C3F",
      "U+11C92", "U+11C93", "U+11C94", "U+11C95", "U+11C96", "U+11C97",
      "U+11C98", "U+11C99", "U+11C9A", "U+11C9B", "U+11C9C", "U+11C9D",
      "U+11C9E", "U+11C9F", "U+11CA0", "U+11CA1", "U+11CA2", "U+11CA3",
      "U+11CA4", "U+11CA5", "U+11CA6", "U+11CA7", "U+11CAA", "U+11CAB",
      "U+11CAC", "U+11CAD", "U+11CAE", "U+11CAF", "U+11CB0", "U+11CB2",
      "U+11CB3", "U+11CB5", "U+11CB6", "U+11D31", "U+11D32", "U+11D33",
      "U+11D34", "U+11D35", "U+11D36", "U+11D3A", "U+11D3C", "U+11D3D",
      "U+11D3F", "U+11D40", "U+11D41", "U+11D42", "U+11D43", "U+11D44",
      "U+11D45", "U+11D47", "U+11D90", "U+11D91", "U+11D95", "U+11D97",
      "U+11EF3", "U+11EF4", "U+13430", "U+13431", "U+13432", "U+13433",
      "U+13434", "U+13435", "U+13436", "U+13437", "U+13438", "U+16AF0",
      "U+16AF1", "U+16AF2", "U+16AF3", "U+16AF4", "U+16B30", "U+16B31",
      "U+16B32", "U+16B33", "U+16B34", "U+16B35", "U+16B36", "U+16B40",
      "U+16B41", "U+16B42", "U+16B43", "U+16F4F", "U+16F8F", "U+16F90",
      "U+16F91", "U+16F92", "U+16F93", "U+16F94", "U+16F95", "U+16F96",
      "U+16F97", "U+16F98", "U+16F99", "U+16F9A", "U+16F9B", "U+16F9C",
      "U+16F9D", "U+16F9E", "U+16F9F", "U+16FE0", "U+16FE1", "U+16FE3",
      "U+16FE4", "U+1AFF0", "U+1AFF1", "U+1AFF2", "U+1AFF3", "U+1AFF5",
      "U+1AFF6", "U+1AFF7", "U+1AFF8", "U+1AFF9", "U+1AFFA", "U+1AFFB",
      "U+1AFFD", "U+1AFFE", "U+1BC9D", "U+1BC9E", "U+1BCA0", "U+1BCA1",
      "U+1BCA2", "U+1BCA3", "U+1CF00", "U+1CF01", "U+1CF02", "U+1CF03",
      "U+1CF04", "U+1CF05", "U+1CF06", "U+1CF07", "U+1CF08", "U+1CF09",
      "U+1CF0A", "U+1CF0B", "U+1CF0C", "U+1CF0D", "U+1CF0E", "U+1CF0F",
      "U+1CF10", "U+1CF11", "U+1CF12", "U+1CF13", "U+1CF14", "U+1CF15",
      "U+1CF16", "U+1CF17", "U+1CF18", "U+1CF19", "U+1CF1A", "U+1CF1B",
      "U+1CF1C", "U+1CF1D", "U+1CF1E", "U+1CF1F", "U+1CF20", "U+1CF21",
      "U+1CF22", "U+1CF23", "U+1CF24", "U+1CF25", "U+1CF26", "U+1CF27",
      "U+1CF28", "U+1CF29", "U+1CF2A", "U+1CF2B", "U+1CF2C", "U+1CF2D",
      "U+1CF30", "U+1CF31", "U+1CF32", "U+1CF33", "U+1CF34", "U+1CF35",
      "U+1CF36", "U+1CF37", "U+1CF38", "U+1CF39", "U+1CF3A", "U+1CF3B",
      "U+1CF3C", "U+1CF3D", "U+1CF3E", "U+1CF3F", "U+1CF40", "U+1CF41",
      "U+1CF42", "U+1CF43", "U+1CF44", "U+1CF45", "U+1CF46", "U+1D167",
      "U+1D168", "U+1D169", "U+1D173", "U+1D174", "U+1D175", "U+1D176",
      "U+1D177", "U+1D178", "U+1D179", "U+1D17A", "U+1D17B", "U+1D17C",
      "U+1D17D", "U+1D17E", "U+1D17F", "U+1D180", "U+1D181", "U+1D182",
      "U+1D185", "U+1D186", "U+1D187", "U+1D188", "U+1D189", "U+1D18A",
      "U+1D18B", "U+1D1AA", "U+1D1AB", "U+1D1AC", "U+1D1AD", "U+1D242",
      "U+1D243", "U+1D244", "U+1DA00", "U+1DA01", "U+1DA02", "U+1DA03",
      "U+1DA04", "U+1DA05", "U+1DA06", "U+1DA07", "U+1DA08", "U+1DA09",
      "U+1DA0A", "U+1DA0B", "U+1DA0C", "U+1DA0D", "U+1DA0E", "U+1DA0F",
      "U+1DA10", "U+1DA11", "U+1DA12", "U+1DA13", "U+1DA14", "U+1DA15",
      "U+1DA16", "U+1DA17", "U+1DA18", "U+1DA19", "U+1DA1A", "U+1DA1B",
      "U+1DA1C", "U+1DA1D", "U+1DA1E", "U+1DA1F", "U+1DA20", "U+1DA21",
      "U+1DA22", "U+1DA23", "U+1DA24", "U+1DA25", "U+1DA26", "U+1DA27",
      "U+1DA28", "U+1DA29", "U+1DA2A", "U+1DA2B", "U+1DA2C", "U+1DA2D",
      "U+1DA2E", "U+1DA2F", "U+1DA30", "U+1DA31", "U+1DA32", "U+1DA33",
      "U+1DA34", "U+1DA35", "U+1DA36", "U+1DA3B", "U+1DA3C", "U+1DA3D",
      "U+1DA3E", "U+1DA3F", "U+1DA40", "U+1DA41", "U+1DA42", "U+1DA43",
      "U+1DA44", "U+1DA45", "U+1DA46", "U+1DA47", "U+1DA48", "U+1DA49",
      "U+1DA4A", "U+1DA4B", "U+1DA4C", "U+1DA4D", "U+1DA4E", "U+1DA4F",
      "U+1DA50", "U+1DA51", "U+1DA52", "U+1DA53", "U+1DA54", "U+1DA55",
      "U+1DA56", "U+1DA57", "U+1DA58", "U+1DA59", "U+1DA5A", "U+1DA5B",
      "U+1DA5C", "U+1DA5D", "U+1DA5E", "U+1DA5F", "U+1DA60", "U+1DA61",
      "U+1DA62", "U+1DA63", "U+1DA64", "U+1DA65", "U+1DA66", "U+1DA67",
      "U+1DA68", "U+1DA69", "U+1DA6A", "U+1DA6B", "U+1DA6C", "U+1DA75",
      "U+1DA84", "U+1DA9B", "U+1DA9C", "U+1DA9D", "U+1DA9E", "U+1DA9F",
      "U+1DAA1", "U+1DAA2", "U+1DAA3", "U+1DAA4", "U+1DAA5", "U+1DAA6",
      "U+1DAA7", "U+1DAA8", "U+1DAA9", "U+1DAAA", "U+1DAAB", "U+1DAAC",
      "U+1DAAD", "U+1DAAE", "U+1DAAF", "U+1E000", "U+1E001", "U+1E002",
      "U+1E003", "U+1E004", "U+1E005", "U+1E006", "U+1E008", "U+1E009",
      "U+1E00A", "U+1E00B", "U+1E00C", "U+1E00D", "U+1E00E", "U+1E00F",
      "U+1E010", "U+1E011", "U+1E012", "U+1E013", "U+1E014", "U+1E015",
      "U+1E016", "U+1E017", "U+1E018", "U+1E01B", "U+1E01C", "U+1E01D",
      "U+1E01E", "U+1E01F", "U+1E020", "U+1E021", "U+1E023", "U+1E024",
      "U+1E026", "U+1E027", "U+1E028", "U+1E029", "U+1E02A", "U+1E130",
      "U+1E131", "U+1E132", "U+1E133", "U+1E134", "U+1E135", "U+1E136",
      "U+1E137", "U+1E138", "U+1E139", "U+1E13A", "U+1E13B", "U+1E13C",
      "U+1E13D", "U+1E2AE", "U+1E2EC", "U+1E2ED", "U+1E2EE", "U+1E2EF",
      "U+1E8D0", "U+1E8D1", "U+1E8D2", "U+1E8D3", "U+1E8D4", "U+1E8D5",
      "U+1E8D6", "U+1E944", "U+1E945", "U+1E946", "U+1E947", "U+1E948",
      "U+1E949", "U+1E94A", "U+1E94B", "U+1F3FB", "U+1F3FC", "U+1F3FD",
      "U+1F3FE", "U+1F3FF", "U+E0001", "U+E0020", "U+E0021", "U+E0022",
      "U+E0023", "U+E0024", "U+E0025", "U+E0026", "U+E0027", "U+E0028",
      "U+E0029", "U+E002A", "U+E002B", "U+E002C", "U+E002D", "U+E002E",
      "U+E002F", "U+E0030", "U+E0031", "U+E0032", "U+E0033", "U+E0034",
      "U+E0035", "U+E0036", "U+E0037", "U+E0038", "U+E0039", "U+E003A",
      "U+E003B", "U+E003C", "U+E003D", "U+E003E", "U+E003F", "U+E0040",
      "U+E0041", "U+E0042", "U+E0043", "U+E0044", "U+E0045", "U+E0046",
      "U+E0047", "U+E0048", "U+E0049", "U+E004A", "U+E004B", "U+E004C",
      "U+E004D", "U+E004E", "U+E004F", "U+E0050", "U+E0051", "U+E0052",
      "U+E0053", "U+E0054", "U+E0055", "U+E0056", "U+E0057", "U+E0058",
      "U+E0059", "U+E005A", "U+E005B", "U+E005C", "U+E005D", "U+E005E",
      "U+E005F", "U+E0060", "U+E0061", "U+E0062", "U+E0063", "U+E0064",
      "U+E0065", "U+E0066", "U+E0067", "U+E0068", "U+E0069", "U+E006A",
      "U+E006B", "U+E006C", "U+E006D", "U+E006E", "U+E006F", "U+E0070",
      "U+E0071", "U+E0072", "U+E0073", "U+E0074", "U+E0075", "U+E0076",
      "U+E0077", "U+E0078", "U+E0079", "U+E007A", "U+E007B", "U+E007C",
      "U+E007D", "U+E007E", "U+E007F", "U+E0100", "U+E0101", "U+E0102",
      "U+E0103", "U+E0104", "U+E0105", "U+E0106", "U+E0107", "U+E0108",
      "U+E0109", "U+E010A", "U+E010B", "U+E010C", "U+E010D", "U+E010E",
      "U+E010F", "U+E0110", "U+E0111", "U+E0112", "U+E0113", "U+E0114",
      "U+E0115", "U+E0116", "U+E0117", "U+E0118", "U+E0119", "U+E011A",
      "U+E011B", "U+E011C", "U+E011D", "U+E011E", "U+E011F", "U+E0120",
      "U+E0121", "U+E0122", "U+E0123", "U+E0124", "U+E0125", "U+E0126",
      "U+E0127", "U+E0128", "U+E0129", "U+E012A", "U+E012B", "U+E012C",
      "U+E012D", "U+E012E", "U+E012F", "U+E0130", "U+E0131", "U+E0132",
      "U+E0133", "U+E0134", "U+E0135", "U+E0136", "U+E0137", "U+E0138",
      "U+E0139", "U+E013A", "U+E013B", "U+E013C", "U+E013D", "U+E013E",
      "U+E013F", "U+E0140", "U+E0141", "U+E0142", "U+E0143", "U+E0144",
      "U+E0145", "U+E0146", "U+E0147", "U+E0148", "U+E0149", "U+E014A",
      "U+E014B", "U+E014C", "U+E014D", "U+E014E", "U+E014F", "U+E0150",
      "U+E0151", "U+E0152", "U+E0153", "U+E0154", "U+E0155", "U+E0156",
      "U+E0157", "U+E0158", "U+E0159", "U+E015A", "U+E015B", "U+E015C",
      "U+E015D", "U+E015E", "U+E015F", "U+E0160", "U+E0161", "U+E0162",
      "U+E0163", "U+E0164", "U+E0165", "U+E0166", "U+E0167", "U+E0168",
      "U+E0169", "U+E016A", "U+E016B", "U+E016C", "U+E016D", "U+E016E",
      "U+E016F", "U+E0170", "U+E0171", "U+E0172", "U+E0173", "U+E0174",
      "U+E0175", "U+E0176", "U+E0177", "U+E0178", "U+E0179", "U+E017A",
      "U+E017B", "U+E017C", "U+E017D", "U+E017E", "U+E017F", "U+E0180",
      "U+E0181", "U+E0182", "U+E0183", "U+E0184", "U+E0185", "U+E0186",
      "U+E0187", "U+E0188", "U+E0189", "U+E018A", "U+E018B", "U+E018C",
      "U+E018D", "U+E018E", "U+E018F", "U+E0190", "U+E0191", "U+E0192",
      "U+E0193", "U+E0194", "U+E0195", "U+E0196", "U+E0197", "U+E0198",
      "U+E0199", "U+E019A", "U+E019B", "U+E019C", "U+E019D", "U+E019E",
      "U+E019F", "U+E01A0", "U+E01A1", "U+E01A2", "U+E01A3", "U+E01A4",
      "U+E01A5", "U+E01A6", "U+E01A7", "U+E01A8", "U+E01A9", "U+E01AA",
      "U+E01AB", "U+E01AC", "U+E01AD", "U+E01AE", "U+E01AF", "U+E01B0",
      "U+E01B1", "U+E01B2", "U+E01B3", "U+E01B4", "U+E01B5", "U+E01B6",
      "U+E01B7", "U+E01B8", "U+E01B9", "U+E01BA", "U+E01BB", "U+E01BC",
      "U+E01BD", "U+E01BE", "U+E01BF", "U+E01C0", "U+E01C1", "U+E01C2",
      "U+E01C3", "U+E01C4", "U+E01C5", "U+E01C6", "U+E01C7", "U+E01C8",
      "U+E01C9", "U+E01CA", "U+E01CB", "U+E01CC", "U+E01CD", "U+E01CE",
      "U+E01CF", "U+E01D0", "U+E01D1", "U+E01D2", "U+E01D3", "U+E01D4",
      "U+E01D5", "U+E01D6", "U+E01D7", "U+E01D8", "U+E01D9", "U+E01DA",
      "U+E01DB", "U+E01DC", "U+E01DD", "U+E01DE", "U+E01DF", "U+E01E0",
      "U+E01E1", "U+E01E2", "U+E01E3", "U+E01E4", "U+E01E5", "U+E01E6",
      "U+E01E7", "U+E01E8", "U+E01E9", "U+E01EA", "U+E01EB", "U+E01EC",
      "U+E01ED", "U+E01EE", "U+E01EF"
    }

\* the cased characters that are not case-ignorable
Cased ==
    {
      "A", "B", "C", "D", "E", "F", "G", "H", "I", "J", "K", "L", "M", "N",
      "O", "P", "Q", "R", "S", "T", "U", "V", "W", "X", "Y", "Z", "a", "b",
      "c", "d", "e", "f", "g", "h", "i", "j", "k", "l", "m", "n", "o", "p",
      "q", "r", "s", "t", "u", "v", "w", "x", "y", "z", "ª", "µ", "º", "À",
      "Á", "Â", "Ã", "Ä", "Å", "Æ", "Ç", "È", "É", "Ê", "Ë", "Ì", "Í", "Î",
      "Ï", "Ð", "Ñ", "Ò", "Ó", "Ô", "Õ", "Ö", "Ø", "Ù", "Ú", "Û", "Ü", "Ý",
      "Þ", "ß", "à", "á", "â", "ã", "ä", "å", "æ", "ç", "è", "é", "ê", "ë",
      "ì", "í", "î", "ï", "ð", "ñ", "ò", "ó", "ô", "õ", "ö", "ø", "ù", "ú",
      "û", "ü", "ý", "þ", "ÿ", "U+0100", "U+0101", "U+0102", "U+0103",
      "U+0104", "U+0105", "U+0106", "U+0107", "U+0108", "U+0109", "U+010A",
      "U+010B", "U+010C", "U+010D", "U+010E", "U+010F", "U+0110", "U+0111",
      "U+0112", "U+0113", "U+0114", "U+0115", "U+0116", "U+0117", "U+0118",
      "U+0119", "U+011A", "U+011B", "U+011C", "U+011D", "U+011E", "U+011F",
      "U+0120", "U+0121", "U+0122", "U+0123", "U+0124", "U+0125", "U+0126",
      "U+0127", "U+0128", "U+0129", "U+012A", "U+012B", "U+012C", "U+012D",
      "U+012E", "U+012F", "U+0130", "U+0131", "U+0132", "U+0133", "U+0134",
      "U+0135", "U+0136", "U+0137", "U+0138", "U+0139", "U+013A", "U+013B",
      "U+013C", "U+013D", "U+013E", "U+013F", "U+0140", "U+0141", "U+0142",
      "U+0143", "U+0144", "U+0145", "U+0146", "U+0147", "U+0148", "U+0149",
      "U+014A", "U+014B", "U+014C", "U+014D", "U+014E", "U+014F", "U+0150",
      "U+0151", "U+0152", "U+0153", "U+0154", "U+0155", "U+0156", "U+0157",
      "U+0158", "U+0159", "U+015A", "U+015B", "U+015C", "U+015D", "U+015E",
      "U+015F", "U+0160", "U+0161", "U+0162", "U+0163", "U+0164", "U+0165",
      "U+0166", "U+0167", "U+0168", "U+0169", "U+016A", "U+016B", "U+016C",
      "U+016D", "U+016E", "U+016F", "U+0170", "U+0171", "U+0172", "U+0173",
      "U+0174", "U+0175", "U+0176", "U+0177", "U+0178", "U+0179", "U+017A",
      "U+017B", "U+017C", "U+017D", "U+017E", "U+017F", "U+0180", "U+0181",
      "U+0182", "U+0183", "U+0184", "U+0185", "U+0186", "U+0187", "U+0188",
      "U+0189", "U+018A", "U+018B", "U+018C", "U+018D", "U+018E", "U+018F",
      "U+0190", "U+0191", "U+0192", "U+0193", "U+0194", "U+0195", "U+0196",
      "U+0197", "U+0198", "U+0199", "U+019A", "U+019B", "U+019C", "U+019D",
      "U+019E", "U+019F", "U+01A0", "U+01A1", "U+01A2", "U+01A3", "U+01A4",
      "U+01A5", "U+01A6", "U+01A7", "U+01A8", "U+01A9", "U+01AA", "U+01AB",
      "U+01AC", "U+01AD", "U+01AE", "U+01AF", "U+01B0", "U+01B1", "U+01B2",
      "U+01B3", "U+01B4", "U+01B5", "U+01B6", "U+01B7", "U+01B8", "U+01B9",
      "U+01BA", "U+01BC", "U+01BD", "U+01BE", "U+01BF", "U+01C4", "U+01C5",
      "U+01C6", "U+01C7", "U+01C8", "U+01C9", "U+01CA", "U+01CB", "U+01CC",
      "U+01CD", "U+01CE", "U+01CF", "U+01D0", "U+01D1", "U+01D2", "U+01D3",
      "U+01D4", "U+01D5", "U+01D6", "U+01D7", "U+01D8", "U+01D9", "U+01DA",
      "U+01DB", "U+01DC", "U+01DD", "U+01DE", "U+01DF", "U+01E0", "U+01E1",
      "U+01E2", "U+01E3", "U+01E4", "U+01E5", "U+01E6", "U+01E7", "U+01E8",
      "U+01E9", "U+01EA", "U+01EB", "U+01EC", "U+01ED", "U+01EE", "U+01EF",
      "U+01F0", "U+01F1", "U+01F2", "U+01F3", "U+01F4", "U+01F5", "U+01F6",
      "U+01F7", "U+01F8", "U+01F9", "U+01FA", "U+01FB", "U+01FC", "U+01FD",
      "U+01FE", "U+01FF", "U+0200", "U+0201", "U+0202", "U+0203", "U+0204",
      "U+0205", "U+0206", "U+0207", "U+0208", "U+0209", "U+020A", "U+020B",
      "U+020C", "U+020D", "U+020E", "U+020F", "U+0210", "U+0211", "U+0212",
      "U+0213", "U+0214", "U+0215", "U+0216", "U+0217", "U+0218", "U+0219",
      "U+021A", "U+021B", "U+021C", "U+021D", "U+021E", "U+021F", "U+0220",
      "U+0221", "U+0222", "U+0223", "U+0224", "U+0225", "U+0226", "U+0227",
      "U+0228", "U+0229", "U+022A", "U+022B", "U+022C", "U+022D", "U+022E",
      "U+022F", "U+0230", "U+0231", "U+0232", "U+0233", "U+0234", "U+0235",
      "U+0236", "U+0237", "U+0238", "U+0239", "U+023A", "U+023B", "U+023C",
      "U+023D", "U+023E", "U+023F", "U+0240", "U+0241", "U+0242", "U+0243",
      "U+0244", "U+0245", "U+0246", "U+0247", "U+0248", "U+0249", "U+024A",
      "U+024B", "U+024C", "U+024D", "U+024E", "U+024F", "U+0250", "U+0251",
      "U+0252", "U+0253", "U+0254", "U+0255", "U+0256", "U+0257", "U+0258",
      "U+0259", "U+025A", "U+025B", "U+025C", "U+025D", "U+025E", "U+025F",
      "U+0260", "U+0261", "U+0262", "U+0263", "U+0264", "U+0265", "U+0266",
      "U+0267", "U+0268", "U+0269", "U+026A", "U+026B", "U+026C", "U+026D",
      "U+026E", "U+026F", "U+0270", "U+0271", "U+0272", "U+0273", "U+0274",
      "U+0275", "U+0276", "U+0277", "U+0278", "U+0279", "U+027A", "U+027B",
      "U+027C", "U+027D", "U+027E", "U+027F", "U+0280", "U+0281", "U+0282",
      "U+0283", "U+0284", "U+0285", "U+0286", "U+0287", "U+0288", "U+0289",
      "U+028A", "U+028B", "U+028C", "U+028D", "U+028E", "U+028F", "U+0290",
      "U+0291", "U+0292", "U+0293", "U+0295", "U+0296", "U+0297", "U+0298",
      "U+0299", "U+029A", "U+029B", "U+029C", "U+029D", "U+029E", "U+029F",
      "U+02A0", "U+02A1", "U+02A2", "U+02A3", "U+02A4", "U+02A5", "U+02A6",
      "U+02A7", "U+02A8", "U+02A9", "U+02AA", "U+02AB", "U+02AC", "U+02AD",
      "U+02AE", "U+02AF", "U+0370", "U+0371", "U+0372", "U+0373", "U+0376",
      "U+0377", "U+037B", "U+037C", "U+037D", "U+037F", "U+0386", "U+0388",
      "U+0389", "U+038A", "U+038C", "U+038E", "U+038F", "U+0390", "U+0391",
      "U+0392", "U+0393", "U+0394", "U+0395", "U+0396", "U+0397", "U+0398",
      "U+0399", "U+039A", "U+039B", "U+039C", "U+039D", "U+039E", "U+039F",
      "U+03A0", "U+03A1", "U+03A3", "U+03A4", "U+03A5", "U+03A6", "U+03A7",
      "U+03A8", "U+03A9", "U+03AA", "U+03AB", "U+03AC", "U+03AD", "U+03AE",
      "U+03AF", "U+03B0", "U+03B1", "U+03B2", "U+03B3", "U+03B4", "U+03B5",
      "U+03B6", "U+03B7", "U+03B8", "U+03B9", "U+03BA", "U+03BB", "U+03BC",
      "U+03BD", "U+03BE", "U+03BF", "U+03C0", "U+03C1", "U+03C2", "U+03C3",
      "U+03C4", "U+03C5", "U+03C6", "U+03C7", "U+03C8", "U+03C9", "U+03CA",
      "U+03CB", "U+03CC", "U+03CD", "U+03CE", "U+03CF", "U+03D0", "U+03D1",
      "U+03D2", "U+03D3", "U+03D4", "U+03D5", "U+03D6", "U+03D7", "U+03D8",
      "U+03D9", "U+03DA", "U+03DB", "U+03DC", "U+03DD", "U+03DE", "U+03DF",
      "U+03E0", "U+03E1", "U+03E2", "U+03E3", "U+03E4", "U+03E5", "U+03E6",
      "U+03E7", "U+03E8", "U+03E9", "U+03EA", "U+03EB", "U+03EC", "U+03ED",
      "U+03EE", "U+03EF", "U+03F0", "U+03F1", "U+03F2", "U+03F3", "U+03F4",
      "U+03F5", "U+03F7", "U+03F8", "U+03F9", "U+03FA", "U+03FB", "U+03FC",
      "U+03FD", "U+03FE", "U+03FF", "U+0400", "U+0401", "U+0402", "U+0403",
      "U+0404", "U+0405", "U+0406", "U+0407", "U+0408", "U+0409", "U+040A",
      "U+040B", "U+040C", "U+040D", "U+040E", "U+040F", "U+0410", "U+0411",
      "U+0412", "U+0413", "U+0414", "U+0415", "U+0416", "U+0417", "U+0418",
      "U+0419", "U+041A", "U+041B", "U+041C", "U+041D", "U+041E", "U+041F",
      "U+0420", "U+0421", "U+0422", "U+0423", "U+0424", "U+0425", "U+0426",
      "U+0427", "U+0428", "U+0429", "U+042A", "U+042B", "U+042C", "U+042D",
      "U+042E", "U+042F", "U+0430", "U+0431", "U+0432", "U+0433", "U+0434",
      "U+0435", "U+0436", "U+0437", "U+0438", "U+0439", "U+043A", "U+043B",
      "U+043C", "U+043D", "U+043E", "U+043F", "U+0440", "U+0441", "U+0442",
      "U+0443", "U+0444", "U+0445", "U+0446", "U+0447", "U+0448", "U+0449",
      "U+044A", "U+044B", "U+044C", "U+044D", "U+044E", "U+044F", "U+0450",
      "U+0451", "U+0452", "U+0453", "U+0454", "U+0455", "U+0456", "U+0457",
      "U+0458", "U+0459", "U+045A", "U+045B", "U+045C", "U+045D", "U+045E",
      "U+045F", "U+0460", "U+0461", "U+0462", "U+0463", "U+0464", "U+0465",
      "U+0466", "U+0467", "U+0468", "U+0469", "U+046A", "U+046B", "U+046C",
      "U+046D", "U+046E", "U+046F", "U+0470", "U+0471", "U+0472", "U+0473",
      "U+0474", "U+0475", "U+0476", "U+0477", "U+0478", "U+0479", "U+047A",
      "U+047B", "U+047C", "U+047D", "U+047E", "U+047F", "U+0480", "U+0481",
      "U+048A", "U+048B", "U+048C", "U+048D", "U+048E", "U+048F", "U+0490",
      "U+0491", "U+0492", "U+0493", "U+0494", "U+0495", "U+0496", "U+0497",
      "U+0498", "U+0499", "U+049A", "U+049B", "U+049C", "U+049D", "U+049E",
      "U+049F", "U+04A0", "U+04A1", "U+04A2", "U+04A3", "U+04A4", "U+04A5",
      "U+04A6", "U+04A7", "U+04A8", "U+04A9", "U+04AA", "U+04AB", "U+04AC",
      "U+04AD", "U+04AE", "U+04AF", "U+04B0", "U+04B1", "U+04B2", "U+04B3",
      "U+04B4", "U+04B5", "U+04B6", "U+04B7", "U+04B8", "U+04B9", "U+04BA",
      "U+04BB", "U+04BC", "U+04BD", "U+04BE", "U+04BF", "U+04C0", "U+04C1",
      "U+04C2", "U+04C3", "U+04C4", "U+04C5", "U+04C6", "U+04C7", "U+04C8",
      "U+04C9", "U+04CA", "U+04CB", "U+04CC", "U+04CD", "U+04CE", "U+04CF",
      "U+04D0", "U+04D1", "U+04D2", "U+04D3", "U+04D4", "U+04D5", "U+04D6",
      "U+04D7", "U+04D8", "U+04D9", "U+04DA", "U+04DB", "U+04DC", "U+04DD",
      "U+04DE", "U+04DF", "U+04E0", "U+04E1", "U+04E2", "U+04E3", "U+04E4",
      "U+04E5", "U+04E6", "U+04E7", "U+04E8", "U+04E9", "U+04EA", "U+04EB",
      "U+04EC", "U+04ED", "U+04EE", "U+04EF", "U+04F0", "U+04F1", "U+04F2",
      "U+04F3", "U+04F4", "U+04F5", "U+04F6", "U+04F7", "U+04F8", "U+04F9",
      "U+04FA", "U+04FB", "U+04FC", "U+04FD", "U+04FE", "U+04FF", "U+0500",
      "U+0501", "U+0502", "U+0503", "U+0504", "U+0505", "U+0506", "U+0507",
      "U+0508", "U+0509", "U+050A", "U+050B", "U+050C", "U+050D", "U+050E",
      "U+050F", "U+0510", "U+0511", "U+0512", "U+0513", "U+0514", "U+0515",
      "U+0516", "U+0517", "U+0518", "U+0519", "U+051A", "U+051B", "U+051C",
      "U+051D", "U+051E", "U+051F", "U+0520", "U+0521", "U+0522", "U+0523",
      "U+0524", "U+0525", "U+0526", "U+0527", "U+0528", "U+0529", "U+052A",
      "U+052B", "U+052C", "U+052D", "U+052E", "U+052F", "U+0531", "U+0532",
      "U+0533", "U+0534", "U+0535", "U+0536", "U+0537", "U+0538", "U+0539",
      "U+053A", "U+053B", "U+053C", "U+053D", "U+053E", "U+053F", "U+0540",
      "U+0541", "U+0542", "U+0543", "U+0544", "U+0545", "U+0546", "U+0547",
      "U+0548", "U+0549", "U+054A", "U+054B", "U+054C", "U+054D", "U+054E",
      "U+054F", "U+0550", "U+0551", "U+0552", "U+0553", "U+0554", "U+0555",
      "U+0556", "U+0560", "U+0561", "U+0562", "U+0563", "U+0564", "U+0565",
      "U+0566", "U+0567", "U+0568", "U+0569", "U+056A", "U+056B", "U+056C",
      "U+056D", "U+056E", "U+056F", "U+0570", "U+0571", "U+0572", "U+0573",
      "U+0574", "U+0575", "U+0576", "U+0577", "U+0578", "U+0579", "U+057A",
      "U+057B", "U+057C", "U+057D", "U+057E", "U+057F", "U+0580", "U+0581",
      "U+0582", "U+0583", "U+0584", "U+0585", "U+0586", "U+0587", "U+0588",
      "U+10A0", "U+10A1", "U+10A2", "U+10A3", "U+10A4", "U+10A5", "U+10A6",
      "U+10A7", "U+10A8", "U+10A9", "U+10AA", "U+10AB", "U+10AC", "U+10AD",
      "U+10AE", "U+10AF", "U+10B0", "U+10B1", "U+10B2", "U+10B3", "U+10B4",
      "U+10B5", "U+10B6", "U+10B7", "U+10B8", "U+10B9", "U+10BA", "U+10BB",
      "U+10BC", "U+10BD", "U+10BE", "U+10BF", "U+10C0", "U+10C1", "U+10C2",
      "U+10C3", "U+10C4", "U+10C5", "U+10C7", "U+10CD", "U+10D0", "U+10D1",
      "U+10D2", "U+10D3", "U+10D4", "U+10D5", "U+10D6", "U+10D7", "U+10D8",
      "U+10D9", "U+10DA", "U+10DB", "U+10DC", "U+10DD", "U+10DE", "U+10DF",
      "U+10E0", "U+10E1", "U+10E2", "U+10E3", "U+10E4", "U+10E5", "U+10E6",
      "U+10E7", "U+10E8", "U+10E9", "U+10EA", "U+10EB", "U+10EC", "U+10ED",
      "U+10EE", "U+10EF", "U+10F0", "U+10F1", "U+10F2", "U+10F3", "U+10F4",
      "U+10F5", "U+10F6", "U+10F7", "U+10F8", "U+10F9", "U+10FA", "U+10FD",
      "U+10FE", "U+10FF", "U+13A0", "U+13A1", "U+13A2", "U+13A3", "U+13A4",
      "U+13A5", "U+13A6", "U+13A7", "U+13A8", "U+13A9", "U+13AA", "U+13AB",
      "U+13AC", "U+13AD", "U+13AE", "U+13AF", "U+13B0", "U+13B1", "U+13B2",
      "U+13B3", "U+13B4", "U+13B5", "U+13B6", "U+13B7", "U+13B8", "U+13B9",
      "U+13BA", "U+13BB", "U+13BC", "U+13BD", "U+13BE", "U+13BF", "U+13C0",
      "U+13C1", "U+13C2", "U+13C3", "U+13C4", "U+13C5", "U+13C6", "U+13C7",
      "U+13C8", "U+13C9", "U+13CA", "U+13CB", "U+13CC", "U+13CD", "U+13CE",
      "U+13CF", "U+13D0", "U+13D1", "U+13D2", "U+13D3", "U+13D4", "U+13D5",
      "U+13D6", "U+13D7", "U+13D8", "U+13D9", "U+13DA", "U+13DB", "U+13DC",
      "U+13DD", "U+13DE", "U+13DF", "U+13E0", "U+13E1", "U+13E2", "U+13E3",
      "U+13E4", "U+13E5", "U+13E6", "U+13E7", "U+13E8", "U+13E9", "U+13EA",
      "U+13EB", "U+13EC", "U+13ED", "U+13EE", "U+13EF", "U+13F0", "U+13F1",
      "U+13F2", "U+13F3", "U+13F4", "U+13F5", "U+13F8", "U+13F9", "U+13FA",
      "U+13FB", "U+13FC", "U+13FD", "U+1C80", "U+1C81", "U+1C82", "U+1C83",
      "U+1C84", "U+1C85", "U+1C86", "U+1C87", "U+1C88", "U+1C90", "U+1C91",
      "U+1C92", "U+1C93", "U+1C94", "U+1C95", "U+1C96", "U+1C97", "U+1C98",
      "U+1C99", "U+1C9A", "U+1C9B", "U+1C9C", "U+1C9D", "U+1C9E", "U+1C9F",
      "U+1CA0", "U+1CA1", "U+1CA2", "U+1CA3", "U+1CA4", "U+1CA5", "U+1CA6",
      "U+1CA7", "U+1CA8", "U+1CA9", "U+1CAA", "U+1CAB", "U+1CAC", "U+1CAD",
      "U+1CAE", "U+1CAF", "U+1CB0", "U+1CB1", "U+1CB2", "U+1CB3", "U+1CB4",
      "U+1CB5", "U+1CB6", "U+1CB7", "U+1CB8", "U+1CB9", "U+1CBA", "U+1CBD",
      "U+1CBE", "U+1CBF", "U+1D00", "U+1D01", "U+1D02", "U+1D03", "U+1D04",
      "U+1D05", "U+1D06", "U+1D07", "U+1D08", "U+1D09", "U+1D0A", "U+1D0B",
      "U+1D0C", "U+1D0D", "U+1D0E", "U+1D0F", "U+1D10", "U+1D11", "U+1D12",
      "U+1D13", "U+1D14", "U+1D15", "U+1D16", "U+1D17", "U+1D18", "U+1D19",
      "U+1D1A", "U+1D1B", "U+1D1C", "U+1D1D", "U+1D1E", "U+1D1F", "U+1D20",
      "U+1D21", "U+1D22", "U+1D23", "U+1D24", "U+1D25", "U+1D26", "U+1D27",
      "U+1D28", "U+1D29", "U+1D2A", "U+1D2B", "U+1D6B", "U+1D6C", "U+1D6D",
      "U+1D6E", "U+1D6F", "U+1D70", "U+1D71", "U+1D72", "U+1D73", "U+1D74",
      "U+1D75", "U+1D76", "U+1D77", "U+1D79", "U+1D7A", "U+1D7B", "U+1D7C",
      "U+1D7D", "U+1D7E", "U+1D7F", "U+1D80", "U+1D81", "U+1D82", "U+1D83",
      "U+1D84", "U+1D85", "U+1D86", "U+1D87", "U+1D88", "U+1D89", "U+1D8A",
      "U+1D8B", "U+1D8C", "U+1D8D", "U+1D8E", "U+1D8F", "U+1D90", "U+1D91",
      "U+1D92", "U+1D93", "U+1D94", "U+1D95", "U+1D96", "U+1D97", "U+1D98",
      "U+1D99", "U+1D9A", "U+1E00", "U+1E01", "U+1E02", "U+1E03", "U+1E04",
      "U+1E05", "U+1E06", "U+1E07", "U+1E08", "U+1E09", "U+1E0A", "U+1E0B",
      "U+1E0C", "U+1E0D", "U+1E0E", "U+1E0F", "U+1E10", "U+1E11", "U+1E12",
      "U+1E13", "U+1E14", "U+1E15", "U+1E16", "U+1E17", "U+1E18", "U+1E19",
      "U+1E1A", "U+1E1B", "U+1E1C", "U+1E1D", "U+1E1E", "U+1E1F", "U+1E20",
      "U+1E21", "U+1E22", "U+1E23", "U+1E24", "U+1E25", "U+1E26", "U+1E27",
      "U+1E28", "U+1E29", "U+1E2A", "U+1E2B", "U+1E2C", "U+1E2D", "U+1E2E",
      "U+1E2F", "U+1E30", "U+1E31", "U+1E32", "U+1E33", "U+1E34", "U+1E35",
      "U+1E36", "U+1E37", "U+1E38", "U+1E39", "U+1E3A", "U+1E3B", "U+1E3C",
      "U+1E3D", "U+1E3E", "U+1E3F", "U+1E40", "U+1E41", "U+1E42", "U+1E43",
      "U+1E44", "U+1E45", "U+1E46", "U+1E47", "U+1E48", "U+1E49", "U+1E4A",
      "U+1E4B", "U+1E4C", "U+1E4D", "U+1E4E", "U+1E4F", "U+1E50", "U+1E51",
      "U+1E52", "U+1E53", "U+1E54", "U+1E55", "U+1E56", "U+1E57", "U+1E58",
      "U+1E59", "U+1E5A", "U+1E5B", "U+1E5C", "U+1E5D", "U+1E5E", "U+1E5F",
      "U+1E60", "U+1E61", "U+1E62", "U+1E63", "U+1E64", "U+1E65", "U+1E66",
      "U+1E67", "U+1E68", "U+1E69", "U+1E6A", "U+1E6B", "U+1E6C", "U+1E6D",
      "U+1E6E", "U+1E6F", "U+1E70", "U+1E71", "U+1E72", "U+1E73", "U+1E74",
      "U+1E75", "U+1E76", "U+1E77", "U+1E78", "U+1E79", "U+1E7A", "U+1E7B",
      "U+1E7C", "U+1E7D", "U+1E7E", "U+1E7F", "U+1E80", "U+1E81", "U+1E82",
      "U+1E83", "U+1E84", "U+1E85", "U+1E86", "U+1E87", "U+1E88", "U+1E89",
      "U+1E8A", "U+1E8B", "U+1E8C", "U+1E8D", "U+1E8E", "U+1E8F", "U+1E90",
      "U+1E91", "U+1E92", "U+1E93", "U+1E94", "U+1E95", "U+1E96", "U+1E97",
      "U+1E98", "U+1E99", "U+1E9A", "U+1E9B", "U+1E9C", "U+1E9D", "U+1E9E",
      "U+1E9F", "U+1EA0", "U+1EA1", "U+1EA2", "U+1EA3", "U+1EA4", "U+1EA5",
      "U+1EA6", "U+1EA7", "U+1EA8", "U+1EA9", "U+1EAA", "U+1EAB", "U+1EAC",
      "U+1EAD", "U+1EAE", "U+1EAF", "U+1EB0", "U+1EB1", "U+1EB2", "U+1EB3",
      "U+1EB4", "U+1EB5", "U+1EB6", "U+1EB7", "U+1EB8", "U+1EB9", "U+1EBA",
      "U+1EBB", "U+1EBC", "U+1EBD", "U+1EBE", "U+1EBF", "U+1EC0", "U+1EC1",
      "U+1EC2", "U+1EC3", "U+1EC4", "U+1EC5", "U+1EC6", "U+1EC7", "U+1EC8",
      "U+1EC9", "U+1ECA", "U+1ECB", "U+1ECC", "U+1ECD", "U+1ECE", "U+1ECF",
      "U+1ED0", "U+1ED1", "U+1ED2", "U+1ED3", "U+1ED4", "U+1ED5", "U+1ED6",
      "U+1ED7", "U+1ED8", "U+1ED9", "U+1EDA", "U+1EDB", "U+1EDC", "U+1EDD",
      "U+1EDE", "U+1EDF", "U+1EE0", "U+1EE1", "U+1EE2", "U+1EE3", "U+1EE4",
      "U+1EE5", "U+1EE6", "U+1EE7", "U+1EE8", "U+1EE9", "U+1EEA", "U+1EEB",
      "U+1EEC", "U+1EED", "U+1EEE", "U+1EEF", "U+1EF0", "U+1EF1", "U+1EF2",
      "U+1EF3", "U+1EF4", "U+1EF5", "U+1EF6", "U+1EF7", "U+1EF8", "U+1EF9",
      "U+1EFA", "U+1EFB", "U+1EFC", "U+1EFD", "U+1EFE", "U+1EFF", "U+1F00",
      "U+1F01", "U+1F02", "U+1F03", "U+1F04", "U+1F05", "U+1F06", "U+1F07",
      "U+1F08", "U+1F09", "U+1F0A", "U+1F0B", "U+1F0C", "U+1F0D", "U+1F0E",
      "U+1F0F", "U+1F10", "U+1F11", "U+1F12", "U+1F13", "U+1F14", "U+1F15",
      "U+1F18", "U+1F19", "U+1F1A", "U+1F1B", "U+1F1C", "U+1F1D", "U+1F20",
      "U+1F21", "U+1F22", "U+1F23", "U+1F24", "U+1F25", "U+1F26", "U+1F27",
      "U+1F28", "U+1F29", "U+1F2A", "U+1F2B", "U+1F2C", "U+1F2D", "U+1F2E",
      "U+1F2F", "U+1F30", "U+1F31", "U+1F32", "U+1F33", "U+1F34", "U+1F35",
      "U+1F36", "U+1F37", "U+1F38", "U+1F39", "U+1F3A", "U+1F3B", "U+1F3C",
      "U+1F3D", "U+1F3E", "U+1F3F", "U+1F40", "U+1F41", "U+1F42", "U+1F43",
      "U+1F44", "U+1F45", "U+1F48", "U+1F49", "U+1F4A", "U+1F4B", "U+1F4C",
      "U+1F4D", "U+1F50", "U+1F51", "U+1F52", "U+1F53", "U+1F54", "U+1F55",
      "U+1F56", "U+1F57", "U+1F59", "U+1F5B", "U+1F5D", "U+1F5F", "U+1F60",
      "U+1F61", "U+1F62", "U+1F63", "U+1F64", "U+1F65", "U+1F66", "U+1F67",
      "U+1F68", "U+1F69", "U+1F6A", "U+1F6B", "U+1F6C", "U+1F6D", "U+1F6E",
      "U+1F6F", "U+1F70", "U+1F71", "U+1F72", "U+1F73", "U+1F74", "U+1F75",
      "U+1F76", "U+1F77", "U+1F78", "U+1F79", "U+1F7A", "U+1F7B", "U+1F7C",
      "U+1F7D", "U+1F80", "U+1F81", "U+1F82", "U+1F83", "U+1F84", "U+1F85",
      "U+1F86", "U+1F87", "U+1F88", "U+1F89", "U+1F8A", "U+1F8B", "U+1F8C",
      "U+1F8D", "U+1F8E", "U+1F8F", "U+1F90", "U+1F91", "U+1F92", "U+1F93",
      "U+1F94", "U+1F95", "U+1F96", "U+1F97", "U+1F98", "U+1F99", "U+1F9A",
      "U+1F9B", "U+1F9C", "U+1F9D", "U+1F9E", "U+1F9F", "U+1FA0", "U+1FA1",
      "U+1FA2", "U+1FA3", "U+1FA4", "U+1FA5", "U+1FA6", "U+1FA7", "U+1FA8",
      "U+1FA9", "U+1FAA", "U+1FAB", "U+1FAC", "U+1FAD", "U+1FAE", "U+1FAF",
      "U+1FB0", "U+1FB1", "U+1FB2", "U+1FB3", "U+1FB4", "U+1FB6", "U+1FB7",
      "U+1FB8", "U+1FB9", "U+1FBA", "U+1FBB", "U+1FBC", "U+1FBE", "U+1FC2",
      "U+1FC3", "U+1FC4", "U+1FC6", "U+1FC7", "U+1FC8", "U+1FC9", "U+1FCA",
      "U+1FCB", "U+1FCC", "U+1FD0", "U+1FD1", "U+1FD2", "U+1FD3", "U+1FD6",
      "U+1FD7", "U+1FD8", "U+1FD9", "U+1FDA", "U+1FDB", "U+1FE0", "U+1FE1",
      "U+1FE2", "U+1FE3", "U+1FE4", "U+1FE5", "U+1FE6", "U+1FE7", "U+1FE8",
      "U+1FE9", "U+1FEA", "U+1FEB", "U+1FEC", "U+1FF2", "U+1FF3", "U+1FF4",
      "U+1FF6", "U+1FF7", "U+1FF8", "U+1FF9", "U+1FFA", "U+1FFB", "U+1FFC",
      "U+2102", "U+2107", "U+210A", "U+210B", "U+210C", "U+210D", "U+210E",
      "U+210F", "U+2110", "U+2111", "U+2112", "U+2113", "U+2115", "U+2119",
      "U+211A", "U+211B", "U+211C", "U+211D", "U+2124", "U+2126", "U+2128",
      "U+212A", "U+212B", "U+212C", "U+212D", "U+212F", "U+2130", "U+2131",
      "U+2132", "U+2133", "U+2134", "U+2139", "U+213C", "U+213D", "U+213E",
      "U+213F", "U+2145", "U+2146", "U+2147", "U+2148", "U+2149", "U+214E",
      "U+2160", "U+2161", "U+2162", "U+2163", "U+2164", "U+2165", "U+2166",
      "U+2167", "U+2168", "U+2169", "U+216A", "U+216B", "U+216C", "U+216D",
      "U+216E", "U+216F", "U+2170", "U+2171", "U+2172", "U+2173", "U+2174",
      "U+2175", "U+2176", "U+2177", "U+2178", "U+2179", "U+217A", "U+217B",
      "U+217C", "U+217D", "U+217E", "U+217F", "U+2183", "U+2184", "U+24B6",
      "U+24B7", "U+24B8", "U+24B9", "U+24BA", "U+24BB", "U+24BC", "U+24BD",
      "U+24BE", "U+24BF", "U+24C0", "U+24C1", "U+24C2", "U+24C3", "U+24C4",
      "U+24C5", "U+24C6", "U+24C7", "U+24C8", "U+24C9", "U+24CA", "U+24CB",
      "U+24CC", "U+24CD", "U+24CE", "U+24CF", "U+24D0", "U+24D1", "U+24D2",
      "U+24D3", "U+24D4", "U+24D5", "U+24D6", "U+24D7", "U+24D8", "U+24D9",
      "U+24DA", "U+24DB", "U+24DC", "U+24DD", "U+24DE", "U+24DF", "U+24E0",
      "U+24E1", "U+24E2", "U+24E3", "U+24E4", "U+24E5", "U+24E6", "U+24E7",
      "U+24E8", "U+24E9", "U+2C00", "U+2C01", "U+2C02", "U+2C03", "U+2C04",
      "U+2C05", "U+2C06", "U+2C07", "U+2C08", "U+2C09", "U+2C0A", "U+2C0B",
      "U+2C0C", "U+2C0D", "U+2C0E", "U+2C0F", "U+2C10", "U+2C11", "U+2C12",
      "U+2C13", "U+2C14", "U+2C15", "U+2C16", "U+2C17", "U+2C18", "U+2C19",
      "U+2C1A", "U+2C1B", "U+2C1C", "U+2C1D", "U+2C1E", "U+2C1F", "U+2C20",
      "U+2C21", "U+2C22", "U+2C23", "U+2C24", "U+2C25", "U+2C26", "U+2C27",
      "U+2C28", "U+2C29", "U+2C2A", "U+2C2B", "U+2C2C", "U+2C2D", "U+2C2E",
      "U+2C2F", "U+2C30", "U+2C31", "U+2C32", "U+2C33", "U+2C34", "U+2C35",
      "U+2C36", "U+2C37", "U+2C38", "U+2C39", "U+2C3A", "U+2C3B", "U+2C3C",
      "U+2C3D", "U+2C3E", "U+2C3F", "U+2C40", "U+2C41", "U+2C42", "U+2C43",
      "U+2C44", "U+2C45", "U+2C46", "U+2C47", "U+2C48", "U+2C49", "U+2C4A",
      "U+2C4B", "U+2C4C", "U+2C4D", "U+2C4E", "U+2C4F", "U+2C50", "U+2C51",
      "U+2C52", "U+2C53", "U+2C54", "U+2C55", "U+2C56", "U+2C57", "U+2C58",
      "U+2C59", "U+2C5A", "U+2C5B", "U+2C5C", "U+2C5D", "U+2C5E", "U+2C5F",
      "U+2C60", "U+2C61", "U+2C62", "U+2C63", "U+2C64", "U+2C65", "U+2C66",
      "U+2C67", "U+2C68", "U+2C69", "U+2C6A", "U+2C6B", "U+2C6C", "U+2C6D",
      "U+2C6E", "U+2C6F", "U+2C70", "U+2C71", "U+2C72", "U+2C73", "U+2C74",
      "U+2C75", "U+2C76", "U+2C77", "U+2C78", "U+2C79", "U+2C7A", "U+2C7B",
      "U+2C7E", "U+2C7F", "U+2C80", "U+2C81", "U+2C82", "U+2C83", "U+2C84",
      "U+2C85", "U+2C86", "U+2C87", "U+2C88", "U+2C89", "U+2C8A", "U+2C8B",
      "U+2C8C", "U+2C8D", "U+2C8E", "U+2C8F", "U+2C90", "U+2C91", "U+2C92",
      "U+2C93", "U+2C94", "U+2C95", "U+2C96", "U+2C97", "U+2C98", "U+2C99",
      "U+2C9A", "U+2C9B", "U+2C9C", "U+2C9D", "U+2C9E", "U+2C9F", "U+2CA0",
      "U+2CA1", "U+2CA2", "U+2CA3", "U+2CA4", "U+2CA5", "U+2CA6", "U+2CA7",
      "U+2CA8", "U+2CA9", "U+2CAA", "U+2CAB", "U+2CAC", "U+2CAD", "U+2CAE",
      "U+2CAF", "U+2CB0", "U+2CB1", "U+2CB2", "U+2CB3", "U+2CB4", "U+2CB5",
      "U+2CB6", "U+2CB7", "U+2CB8", "U+2CB9", "U+2CBA", "U+2CBB", "U+2CBC",
      "U+2CBD", "U+2CBE", "U+2CBF", "U+2CC0", "U+2CC1", "U+2CC2", "U+2CC3",
      "U+2CC4", "U+2CC5", "U+2CC6", "U+2CC7", "U+2CC8", "U+2CC9", "U+2CCA",
      "U+2CCB", "U+2CCC", "U+2CCD", "U+2CCE", "U+2CCF", "U+2CD0", "U+2CD1",
      "U+2CD2", "U+2CD3", "U+2CD4", "U+2CD5", "U+2CD6", "U+2CD7", "U+2CD8",
      "U+2CD9", "U+2CDA", "U+2CDB", "U+2CDC", "U+2CDD", "U+2CDE", "U+2CDF",
      "U+2CE0", "U+2CE1", "U+2CE2", "U+2CE3", "U+2CE4", "U+2CEB", "U+2CEC",
      "U+2CED", "U+2CEE", "U+2CF2", "U+2CF3", "U+2D00", "U+2D01", "U+2D02",
      "U+2D03", "U+2D04", "U+2D05", "U+2D06", "U+2D07", "U+2D08", "U+2D09",
      "U+2D0A", "U+2D0B", "U+2D0C", "U+2D0D", "U+2D0E", "U+2D0F", "U+2D10",
      "U+2D11", "U+2D12", "U+2D13", "U+2D14", "U+2D15", "U+2D16", "U+2D17",
      "U+2D18", "U+2D19", "U+2D1A", "U+2D1B", "U+2D1C", "U+2D1D", "U+2D1E",
      "U+2D1F", "U+2D20", "U+2D21", "U+2D22", "U+2D23", "U+2D24", "U+2D25",
      "U+2D27", "U+2D2D", "U+A640", "U+A641", "U+A642", "U+A643", "U+A644",
      "U+A645", "U+A646", "U+A647", "U+A648", "U+A649", "U+A64A", "U+A64B",
      "U+A64C", "U+A64D", "U+A64E", "U+A64F", "U+A650", "U+A651", "U+A652",
      "U+A653", "U+A654", "U+A655", "U+A656", "U+A657", "U+A658", "U+A659",
      "U+A65A", "U+A65B", "U+A65C", "U+A65D", "U+A65E", "U+A65F", "U+A660",
      "U+A661", "U+A662", "U+A663", "U+A664", "U+A665", "U+A666", "U+A667",
      "U+A668", "U+A669", "U+A66A", "U+A66B", "U+A66C", "U+A66D", "U+A680",
      "U+A681", "U+A682", "U+A683", "U+A684", "U+A685", "U+A686", "U+A687",
      "U+A688", "U+A689", "U+A68A", "U+A68B", "U+A68C", "U+A68D", "U+A68E",
      "U+A68F", "U+A690", "U+A691", "U+A692", "U+A693", "U+A694", "U+A695",
      "U+A696", "U+A697", "U+A698", "U+A699", "U+A69A", "U+A69B", "U+A722",
      "U+A723", "U+A724", "U+A725", "U+A726", "U+A727", "U+A728", "U+A729",
      "U+A72A", "U+A72B", "U+A72C", "U+A72D", "U+A72E", "U+A72F", "U+A730",
      "U+A731", "U+A732", "U+A733", "U+A734", "U+A735", "U+A736", "U+A737",
      "U+A738", "U+A739", "U+A73A", "U+A73B", "U+A73C", "U+A73D", "U+A73E",
      "U+A73F", "U+A740", "U+A741", "U+A742", "U+A743", "U+A744", "U+A745",
      "U+A746", "U+A747", "U+A748", "U+A749", "U+A74A", "U+A74B", "U+A74C",
      "U+A74D", "U+A74E", "U+A74F", "U+A750", "U+A751", "U+A752", "U+A753",
      "U+A754", "U+A755", "U+A756", "U+A757", "U+A758", "U+A759", "U+A75A",
      "U+A75B", "U+A75C", "U+A75D", "U+A75E", "U+A75F", "U+A760", "U+A761",
      "U+A762", "U+A763", "U+A764", "U+A765", "U+A766", "U+A767", "U+A768",
      "U+A769", "U+A76A", "U+A76B", "U+A76C", "U+A76D", "U+A76E", "U+A76F",
      "U+A771", "U+A772", "U+A773", "U+A774", "U+A775", "U+A776", "U+A777",
      "U+A778", "U+A779", "U+A77A", "U+A77B", "U+A77C", "U+A77D", "U+A77E",
      "U+A77F", "U+A780", "U+A781", "U+A782", "U+A783", "U+A784", "U+A785",
      "U+A786", "U+A787", "U+A78B", "U+A78C", "U+A78D", "U+A78E", "U+A790",
      "U+A791", "U+A792", "U+A793", "U+A794", "U+A795", "U+A796", "U+A797",
      "U+A798", "U+A799", "U+A79A", "U+A79B", "U+A79C", "U+A79D", "U+A79E",
      "U+A79F", "U+A7A0", "U+A7A1", "U+A7A2", "U+A7A3", "U+A7A4", "U+A7A5",
      "U+A7A6", "U+A7A7", "U+A7A8", "U+A7A9", "U+A7AA", "U+A7AB", "U+A7AC",
      "U+A7AD", "U+A7AE", "U+A7AF", "U+A7B0", "U+A7B1", "U+A7B2", "U+A7B3",
      "U+A7B4", "U+A7B5", "U+A7B6", "U+A7B7", "U+A7B8", "U+A7B9", "U+A7BA",
      "U+A7BB", "U+A7BC", "U+A7BD", "U+A7BE", "U+A7BF", "U+A7C0", "U+A7C1",
      "U+A7C2", "U+A7C3", "U+A7C4", "U+A7C5", "U+A7C6", "U+A7C7", "U+A7C8",
      "U+A7C9", "U+A7CA", "U+A7D0", "U+A7D1", "U+A7D3", "U+A7D5", "U+A7D6",
      "U+A7D7", "U+A7D8", "U+A7D9", "U+A7F5", "U+A7F6", "U+A7FA", "U+AB30",
      "U+AB31", "U+AB32", "U+AB33", "U+AB34", "U+AB35", "U+AB36", "U+AB37",
      "U+AB38", "U+AB39", "U+AB3A", "U+AB3B", "U+AB3C", "U+AB3D", "U+AB3E",
      "U+AB3F", "U+AB40", "U+AB41", "U+AB42", "U+AB43", "U+AB44", "U+AB45",
      "U+AB46", "U+AB47", "U+AB48", "U+AB49", "U+AB4A", "U+AB4B", "U+AB4C",
      "U+AB4D", "U+AB4E", "U+AB4F", "U+AB50", "U+AB51", "U+AB52", "U+AB53",
      "U+AB54", "U+AB55", "U+AB56", "U+AB57", "U+AB58", "U+AB59", "U+AB5A",
      "U+AB60", "U+AB61", "U+AB62", "U+AB63", "U+AB64", "U+AB65", "U+AB66",
      "U+AB67", "U+AB68", "U+AB70", "U+AB71", "U+AB72", "U+AB73", "U+AB74",
      "U+AB75", "U+AB76", "U+AB77", "U+AB78", "U+AB79", "U+AB7A", "U+AB7B",
      "U+AB7C", "U+AB7D", "U+AB7E", "U+AB7F", "U+AB80", "U+AB81", "U+AB82",
      "U+AB83", "U+AB84", "U+AB85", "U+AB86", "U+AB87", "U+AB88", "U+AB89",
      "U+AB8A", "U+AB8B", "U+AB8C", "U+AB8D", "U+AB8E", "U+AB8F", "U+AB90",
      "U+AB91", "U+AB92", "U+AB93", "U+AB94", "U+AB95", "U+AB96", "U+AB97",
      "U+AB98", "U+AB99", "U+AB9A", "U+AB9B", "U+AB9C", "U+AB9D", "U+AB9E",
      "U+AB9F", "U+ABA0", "U+ABA1", "U+ABA2", "U+ABA3", "U+ABA4", "U+ABA5",
      "U+ABA6", "U+ABA7", "U+ABA8", "U+ABA9", "U+ABAA", "U+ABAB", "U+ABAC",
      "U+ABAD", "U+ABAE", "U+ABAF", "U+ABB0", "U+ABB1", "U+ABB2", "U+ABB3",
      "U+ABB4", "U+ABB5", "U+ABB6", "U+ABB7", "U+ABB8", "U+ABB9", "U+ABBA",
      "U+ABBB", "U+ABBC", "U+ABBD", "U+ABBE", "U+ABBF", "U+FB00", "U+FB01",
      "U+FB02", "U+FB03", "U+FB04", "U+FB05", "U+FB06", "U+FB13", "U+FB14",
      "U+FB15", "U+FB16", "U+FB17", "U+FF21", "U+FF22", "U+FF23", "U+FF24",
      "U+FF25", "U+FF26", "U+FF27", "U+FF28", "U+FF29", "U+FF2A", "U+FF2B",
      "U+FF2C", "U+FF2D", "U+FF2E", "U+FF2F", "U+FF30", "U+FF31", "U+FF32",
      "U+FF33", "U+FF34", "U+FF35", "U+FF36", "U+FF37", "U+FF38", "U+FF39",
      "U+FF3A", "U+FF41", "U+FF42", "U+FF43", "U+FF44", "U+FF45", "U+FF46",
      "U+FF47", "U+FF48", "U+FF49", "U+FF4A", "U+FF4B", "U+FF4C", "U+FF4D",
      "U+FF4E", "U+FF4F", "U+FF50", "U+FF51", "U+FF52", "U+FF53", "U+FF54",
      "U+FF55", "U+FF56", "U+FF57", "U+FF58", "U+FF59", "U+FF5A", "U+10400",
      "U+10401", "U+10402", "U+10403", "U+10404", "U+10405", "U+10406",
      "U+10407", "U+10408", "U+10409", "U+1040A", "U+1040B", "U+1040C",
      "U+1040D", "U+1040E", "U+1040F", "U+10410", "U+10411", "U+10412",
      "U+10413", "U+10414", "U+10415", "U+10416", "U+10417", "U+10418",
      "U+10419", "U+1041A", "U+1041B", "U+1041C", "U+1041D", "U+1041E",
      "U+1041F", "U+10420", "U+10421", "U+10422", "U+10423", "U+10424",
      "U+10425", "U+10426", "U+10427", "U+10428", "U+10429", "U+1042A",
      "U+1042B", "U+1042C", "U+1042D", "U+1042E", "U+1042F", "U+10430",
      "U+10431", "U+10432", "U+10433", "U+10434", "U+10435", "U+10436",
      "U+10437", "U+10438", "U+10439", "U+1043A", "U+1043B", "U+1043C",
      "U+1043D", "U+1043E", "U+1043F", "U+10440", "U+10441", "U+10442",
      "U+10443", "U+10444", "U+10445", "U+10446", "U+10447", "U+10448",
      "U+10449", "U+1044A", "U+1044B", "U+1044C", "U+1044D", "U+1044E",
      "U+1044F", "U+104B0", "U+104B1", "U+104B2", "U+104B3", "U+104B4",
      "U+104B5", "U+104B6", "U+104B7", "U+104B8", "U+104B9", "U+104BA",
      "U+104BB", "U+104BC", "U+104BD", "U+104BE", "U+104BF", "U+104C0",
      "U+104C1", "U+104C2", "U+104C3", "U+104C4", "U+104C5", "U+104C6",
      "U+104C7", "U+104C8", "U+104C9", "U+104CA", "U+104CB", "U+104CC",
      "U+104CD", "U+104CE", "U+104CF", "U+104D0", "U+104D1", "U+104D2",
      "U+104D3", "U+104D8", "U+104D9", "U+104DA", "U+104DB", "U+104DC",
      "U+104DD", "U+104DE", "U+104DF", "U+104E0", "U+104E1", "U+104E2",
      "U+104E3", "U+104E4", "U+104E5", "U+104E6", "U+104E7", "U+104E8",
      "U+104E9", "U+104EA", "U+104EB", "U+104EC", "U+104ED", "U+104EE",
      "U+104EF", "U+104F0", "U+104F1", "U+104F2", "U+104F3", "U+104F4",
      "U+104F5", "U+104F6", "U+104F7", "U+104F8", "U+104F9", "U+104FA",
      "U+104FB", "U+10570", "U+10571", "U+10572", "U+10573", "U+10574",
      "U+10575", "U+10576", "U+10577", "U+10578", "U+10579", "U+1057A",
      "U+1057C", "U+1057D", "U+1057E", "U+1057F", "U+10580", "U+10581",
      "U+10582", "U+10583", "U+10584", "U+10585", "U+10586", "U+10587",
      "U+10588", "U+10589", "U+1058A", "U+1058C", "U+1058D", "U+1058E",
      "U+1058F", "U+10590", "U+10591", "U+10592", "U+10594", "U+10595",
      "U+10597", "U+10598", "U+10599", "U+1059A", "U+1059B", "U+1059C",
      "U+1059D", "U+1059E", "U+1059F", "U+105A0", "U+105A1", "U+105A3",
      "U+105A4", "U+105A5", "U+105A6", "U+105A7", "U+105A8", "U+105A9",
      "U+105AA", "U+105AB", "U+105AC", "U+105AD", "U+105AE", "U+105AF",
      "U+105B0", "U+105B1", "U+105B3", "U+105B4", "U+105B5", "U+105B6",
      "U+105B7", "U+105B8", "U+105B9", "U+105BB", "U+105BC", "U+10C80",
      "U+10C81", "U+10C82", "U+10C83", "U+10C84", "U+10C85", "U+10C86",
      "U+10C87", "U+10C88", "U+10C89", "U+10C8A", "U+10C8B", "U+10C8C",
      "U+10C8D", "U+10C8E", "U+10C8F", "U+10C90", "U+10C91", "U+10C92",
      "U+10C93", "U+10C94", "U+10C95", "U+10C96", "U+10C97", "U+10C98",
      "U+10C99", "U+10C9A", "U+10C9B", "U+10C9C", "U+10C9D", "U+10C9E",
      "U+10C9F", "U+10CA0", "U+10CA1", "U+10CA2", "U+10CA3", "U+10CA4",
      "U+10CA5", "U+10CA6", "U+10CA7", "U+10CA8", "U+10CA9", "U+10CAA",
      "U+10CAB", "U+10CAC", "U+10CAD", "U+10CAE", "U+10CAF", "U+10CB0",
      "U+10CB1", "U+10CB2", "U+10CC0", "U+10CC1", "U+10CC2", "U+10CC3",
      "U+10CC4", "U+10CC5", "U+10CC6", "U+10CC7", "U+10CC8", "U+10CC9",
      "U+10CCA", "U+10CCB", "U+10CCC", "U+10CCD", "U+10CCE", "U+10CCF",
      "U+10CD0", "U+10CD1", "U+10CD2", "U+10CD3", "U+10CD4", "U+10CD5",
      "U+10CD6", "U+10CD7", "U+10CD8", "U+10CD9", "U+10CDA", "U+10CDB",
      "U+10CDC", "U+10CDD", "U+10CDE", "U+10CDF", "U+10CE0", "U+10CE1",
      "U+10CE2", "U+10CE3", "U+10CE4", "U+10CE5", "U+10CE6", "U+10CE7",
      "U+10CE8", "U+10CE9", "U+10CEA", "U+10CEB", "U+10CEC", "U+10CED",
      "U+10CEE", "U+10CEF", "U+10CF0", "U+10CF1", "U+10CF2", "U+118A0",
      "U+118A1", "U+118A2", "U+118A3", "U+118A4", "U+118A5", "U+118A6",
      "U+118A7", "U+118A8", "U+118A9", "U+118AA", "U+118AB", "U+118AC",
      "U+118AD", "U+118AE", "U+118AF", "U+118B0", "U+118B1", "U+118B2",
      "U+118B3", "U+118B4", "U+118B5", "U+118B6", "U+118B7", "U+118B8",
      "U+118B9", "U+118BA", "U+118BB", "U+118BC", "U+118BD", "U+118BE",
      "U+118BF", "U+118C0", "U+118C1", "U+118C2", "U+118C3", "U+118C4",
      "U+118C5", "U+118C6", "U+118C7", "U+118C8", "U+118C9", "U+118CA",
      "U+118CB", "U+118CC", "U+118CD", "U+118CE", "U+118CF", "U+118D0",
      "U+118D1", "U+118D2", "U+118D3", "U+118D4", "U+118D5", "U+118D6",
      "U+118D7", "U+118D8", "U+118D9", "U+118DA", "U+118DB", "U+118DC",
      "U+118DD", "U+118DE", "U+118DF", "U+16E40", "U+16E41", "U+16E42",
      "U+16E43", "U+16E44", "U+16E45", "U+16E46", "U+16E47", "U+16E48",
      "U+16E49", "U+16E4A", "U+16E4B", "U+16E4C", "U+16E4D", "U+16E4E",
      "U+16E4F", "U+16E50", "U+16E51", "U+16E52", "U+16E53", "U+16E54",
      "U+16E55", "U+16E56", "U+16E57", "U+16E58", "U+16E59", "U+16E5A",
      "U+16E5B", "U+16E5C", "U+16E5D", "U+16E5E", "U+16E5F", "U+16E60",
      "U+16E61", "U+16E62", "U+16E63", "U+16E64", "U+16E65", "U+16E66",
      "U+16E67", "U+16E68", "U+16E69", "U+16E6A", "U+16E6B", "U+16E6C",
      "U+16E6D", "U+16E6E", "U+16E6F", "U+16E70", "U+16E71", "U+16E72",
      "U+16E73", "U+16E74", "U+16E75", "U+16E76", "U+16E77", "U+16E78",
      "U+16E79", "U+16E7A", "U+16E7B", "U+16E7C", "U+16E7D", "U+16E7E",
      "U+16E7F", "U+1D400", "U+1D401", "U+1D402", "U+1D403", "U+1D404",
      "U+1D405", "U+1D406", "U+1D407", "U+1D408", "U+1D409", "U+1D40A",
      "U+1D40B", "U+1D40C", "U+1D40D", "U+1D40E", "U+1D40F", "U+1D410",
      "U+1D411", "U+1D412", "U+1D413", "U+1D414", "U+1D415", "U+1D416",
      "U+1D417", "U+1D418", "U+1D419", "U+1D41A", "U+1D41B", "U+1D41C",
      "U+1D41D", "U+1D41E", "U+1D41F", "U+1D420", "U+1D421", "U+1D422",
      "U+1D423", "U+1D424", "U+1D425", "U+1D426", "U+1D427", "U+1D428",
      "U+1D429", "U+1D42A", "U+1D42B", "U+1D42C", "U+1D42D", "U+1D42E",
      "U+1D42F", "U+1D430", "U+1D431", "U+1D432", "U+1D433", "U+1D434",
      "U+1D435", "U+1D436", "U+1D437", "U+1D438", "U+1D439", "U+1D43A",
      "U+1D43B", "U+1D43C", "U+1D43D", "U+1D43E", "U+1D43F", "U+1D440",
      "U+1D441", "U+1D442", "U+1D443", "U+1D444", "U+1D445", "U+1D446",
      "U+1D447", "U+1D448", "U+1D449", "U+1D44A", "U+1D44B", "U+1D44C",
      "U+1D44D", "U+1D44E", "U+1D44F", "U+1D450", "U+1D451", "U+1D452",
      "U+1D453", "U+1D454", "U+1D456", "U+1D457", "U+1D458", "U+1D459",
      "U+1D45A", "U+1D45B", "U+1D45C", "U+1D45D", "U+1D45E", "U+1D45F",
      "U+1D460", "U+1D461", "U+1D462", "U+1D463", "U+1D464", "U+1D465",
      "U+1D466", "U+1D467", "U+1D468", "U+1D469", "U+1D46A", "U+1D46B",
      "U+1D46C", "U+1D46D", "U+1D46E", "U+1D46F", "U+1D470", "U+1D471",
      "U+1D472", "U+1D473", "U+1D474", "U+1D475", "U+1D476", "U+1D477",
      "U+1D478", "U+1D479", "U+1D47A", "U+1D47B", "U+1D47C", "U+1D47D",
      "U+1D47E", "U+1D47F", "U+1D480", "U+1D481", "U+1D482", "U+1D483",
      "U+1D484", "U+1D485", "U+1D486", "U+1D487", "U+1D488", "U+1D489",
      "U+1D48A", "U+1D48B", "U+1D48C", "U+1D48D", "U+1D48E", "U+1D48F",
      "U+1D490", "U+1D491", "U+1D492", "U+1D493", "U+1D494", "U+1D495",
      "U+1D496", "U+1D497", "U+1D498", "U+1D499", "U+1D49A", "U+1D49B",
      "U+1D49C", "U+1D49E", "U+1D49F", "U+1D4A2", "U+1D4A5", "U+1D4A6",
      "U+1D4A9", "U+1D4AA", "U+1D4AB", "U+1D4AC", "U+1D4AE", "U+1D4AF",
      "U+1D4B0", "U+1D4B1", "U+1D4B2", "U+1D4B3", "U+1D4B4", "U+1D4B5",
      "U+1D4B6", "U+1D4B7", "U+1D4B8", "U+1D4B9", "U+1D4BB", "U+1D4BD",
      "U+1D4BE", "U+1D4BF", "U+1D4C0", "U+1D4C1", "U+1D4C2", "U+1D4C3",
      "U+1D4C5", "U+1D4C6", "U+1D4C7", "U+1D4C8", "U+1D4C9", "U+1D4CA",
      "U+1D4CB", "U+1D4CC", "U+1D4CD", "U+1D4CE", "U+1D4CF", "U+1D4D0",
      "U+1D4D1", "U+1D4D2", "U+1D4D3", "U+1D4D4", "U+1D4D5", "U+1D4D6",
      "U+1D4D7", "U+1D4D8", "U+1D4D9", "U+1D4DA", "U+1D4DB", "U+1D4DC",
      "U+1D4DD", "U+1D4DE", "U+1D4DF", "U+1D4E0", "U+1D4E1", "U+1D4E2",
      "U+1D4E3", "U+1D4E4", "U+1D4E5", "U+1D4E6", "U+1D4E7", "U+1D4E8",
      "U+1D4E9", "U+1D4EA", "U+1D4EB", "U+1D4EC", "U+1D4ED", "U+1D4EE",
      "U+1D4EF", "U+1D4F0", "U+1D4F1", "U+1D4F2", "U+1D4F3", "U+1D4F4",
      "U+1D4F5", "U+1D4F6", "U+1D4F7", "U+1D4F8", "U+1D4F9", "U+1D4FA",
      "U+1D4FB", "U+1D4FC", "U+1D4FD", "U+1D4FE", "U+1D4FF", "U+1D500",
      "U+1D501", "U+1D502", "U+1D503", "U+1D504", "U+1D505", "U+1D507",
      "U+1D508", "U+1D509", "U+1D50A", "U+1D50D", "U+1D50E", "U+1D50F",
      "U+1D510", "U+1D511", "U+1D512", "U+1D513", "U+1D514", "U+1D516",
      "U+1D517", "U+1D518", "U+1D519", "U+1D51A", "U+1D51B", "U+1D51C",
      "U+1D51E", "U+1D51F", "U+1D520", "U+1D521", "U+1D522", "U+1D523",
      "U+1D524", "U+1D525", "U+1D526", "U+1D527", "U+1D528", "U+1D529",
      "U+1D52A", "U+1D52B", "U+1D52C", "U+1D52D", "U+1D52E", "U+1D52F",
      "U+1D530", "U+1D531", "U+1D532", "U+1D533", "U+1D534", "U+1D535",
      "U+1D536", "U+1D537", "U+1D538", "U+1D539", "U+1D53B", "U+1D53C",
      "U+1D53D", "U+1D53E", "U+1D540", "U+1D541", "U+1D542", "U+1D543",
      "U+1D544", "U+1D546", "U+1D54A", "U+1D54B", "U+1D54C", "U+1D54D",
      "U+1D54E", "U+1D54F", "U+1D550", "U+1D552", "U+1D553", "U+1D554",
      "U+1D555", "U+1D556", "U+1D557", "U+1D558", "U+1D559", "U+1D55A",
      "U+1D55B", "U+1D55C", "U+1D55D", "U+1D55E", "U+1D55F", "U+1D560",
      "U+1D561", "U+1D562", "U+1D563", "U+1D564", "U+1D565", "U+1D566",
      "U+1D567", "U+1D568", "U+1D569", "U+1D56A", "U+1D56B", "U+1D56C",
      "U+1D56D", "U+1D56E", "U+1D56F", "U+1D570", "U+1D571", "U+1D572",
      "U+1D573", "U+1D574", "U+1D575", "U+1D576", "U+1D577", "U+1D578",
      "U+1D579", "U+1D57A", "U+1D57B", "U+1D57C", "U+1D57D", "U+1D57E",
      "U+1D57F", "U+1D580", "U+1D581", "U+1D582", "U+1D583", "U+1D584",
      "U+1D585", "U+1D586", "U+1D587", "U+1D588", "U+1D589", "U+1D58A",
      "U+1D58B", "U+1D58C", "U+1D58D", "U+1D58E", "U+1D58F", "U+1D590",
      "U+1D591", "U+1D592", "U+1D593", "U+1D594", "U+1D595", "U+1D596",
      "U+1D597", "U+1D598", "U+1D599", "U+1D59A", "U+1D59B", "U+1D59C",
      "U+1D59D", "U+1D59E", "U+1D59F", "U+1D5A0", "U+1D5A1", "U+1D5A2",
      "U+1D5A3", "U+1D5A4", "U+1D5A5", "U+1D5A6", "U+1D5A7", "U+1D5A8",
      "U+1D5A9", "U+1D5AA", "U+1D5AB", "U+1D5AC", "U+1D5AD", "U+1D5AE",
      "U+1D5AF", "U+1D5B0", "U+1D5B1", "U+1D5B2", "U+1D5B3", "U+1D5B4",
      "U+1D5B5", "U+1D5B6", "U+1D5B7", "U+1D5B8", "U+1D5B9", "U+1D5BA",
      "U+1D5BB", "U+1D5BC", "U+1D5BD", "U+1D5BE", "U+1D5BF", "U+1D5C0",
      "U+1D5C1", "U+1D5C2", "U+1D5C3", "U+1D5C4", "U+1D5C5", "U+1D5C6",
      "U+1D5C7", "U+1D5C8", "U+1D5C9", "U+1D5CA", "U+1D5CB", "U+1D5CC",
      "U+1D5CD", "U+1D5CE", "U+1D5CF", "U+1D5D0", "U+1D5D1", "U+1D5D2",
      "U+1D5D3", "U+1D5D4", "U+1D5D5", "U+1D5D6", "U+1D5D7", "U+1D5D8",
      "U+1D5D9", "U+1D5DA", "U+1D5DB", "U+1D5DC", "U+1D5DD", "U+1D5DE",
      "U+1D5DF", "U+1D5E0", "U+1D5E1", "U+1D5E2", "U+1D5E3", "U+1D5E4",
      "U+1D5E5", "U+1D5E6", "U+1D5E7", "U+1D5E8", "U+1D5E9", "U+1D5EA",
      "U+1D5EB", "U+1D5EC", "U+1D5ED", "U+1D5EE", "U+1D5EF", "U+1D5F0",
      "U+1D5F1", "U+1D5F2", "U+1D5F3", "U+1D5F4", "U+1D5F5", "U+1D5F6",
      "U+1D5F7", "U+1D5F8", "U+1D5F9", "U+1D5FA", "U+1D5FB", "U+1D5FC",
      "U+1D5FD", "U+1D5FE", "U+1D5FF", "U+1D600", "U+1D601", "U+1D602",
      "U+1D603", "U+1D604", "U+1D605", "U+1D606", "U+1D607", "U+1D608",
      "U+1D609", "U+1D60A", "U+1D60B", "U+1D60C", "U+1D60D", "U+1D60E",
      "U+1D60F", "U+1D610", "U+1D611", "U+1D612", "U+1D613", "U+1D614",
      "U+1D615", "U+1D616", "U+1D617", "U+1D618", "U+1D619", "U+1D61A",
      "U+1D61B", "U+1D61C", "U+1D61D", "U+1D61E", "U+1D61F", "U+1D620",
      "U+1D621", "U+1D622", "U+1D623", "U+1D624", "U+1D625", "U+1D626",
      "U+1D627", "U+1D628", "U+1D629", "U+1D62A", "U+1D62B", "U+1D62C",
      "U+1D62D", "U+1D62E", "U+1D62F", "U+1D630", "U+1D631", "U+1D632",
      "U+1D633", "U+1D634", "U+1D635", "U+1D636", "U+1D637", "U+1D638",
      "U+1D639", "U+1D63A", "U+1D63B", "U+1D63C", "U+1D63D", "U+1D63E",
      "U+1D63F", "U+1D640", "U+1D641", "U+1D642", "U+1D643", "U+1D644",
      "U+1D645", "U+1D646", "U+1D647", "U+1D648", "U+1D649", "U+1D64A",
      "U+1D64B", "U+1D64C", "U+1D64D", "U+1D64E", "U+1D64F", "U+1D650",
      "U+1D651", "U+1D652", "U+1D653", "U+1D654", "U+1D655", "U+1D656",
      "U+1D657", "U+1D658", "U+1D659", "U+1D65A", "U+1D65B", "U+1D65C",
      "U+1D65D", "U+1D65E", "U+1D65F", "U+1D660", "U+1D661", "U+1D662",
      "U+1D663", "U+1D664", "U+1D665", "U+1D666", "U+1D667", "U+1D668",
      "U+1D669", "U+1D66A", "U+1D66B", "U+1D66C", "U+1D66D", "U+1D66E",
      "U+1D66F", "U+1D670", "U+1D671", "U+1D672", "U+1D673", "U+1D674",
      "U+1D675", "U+1D676", "U+1D677", "U+1D678", "U+1D679", "U+1D67A",
      "U+1D67B", "U+1D67C", "U+1D67D", "U+1D67E", "U+1D67F", "U+1D680",
      "U+1D681", "U+1D682", "U+1D683", "U+1D684", "U+1D685", "U+1D686",
      "U+1D687", "U+1D688", "U+1D689", "U+1D68A", "U+1D68B", "U+1D68C",
      "U+1D68D", "U+1D68E", "U+1D68F", "U+1D690", "U+1D691", "U+1D692",
      "U+1D693", "U+1D694", "U+1D695", "U+1D696", "U+1D697", "U+1D698",
      "U+1D699", "U+1D69A", "U+1D69B", "U+1D69C", "U+1D69D", "U+1D69E",
      "U+1D69F", "U+1D6A0", "U+1D6A1", "U+1D6A2", "U+1D6A3", "U+1D6A4",
      "U+1D6A5", "U+1D6A8", "U+1D6A9", "U+1D6AA", "U+1D6AB", "U+1D6AC",
      "U+1D6AD", "U+1D6AE", "U+1D6AF", "U+1D6B0", "U+1D6B1", "U+1D6B2",
      "U+1D6B3", "U+1D6B4", "U+1D6B5", "U+1D6B6", "U+1D6B7", "U+1D6B8",
      "U+1D6B9", "U+1D6BA", "U+1D6BB", "U+1D6BC", "U+1D6BD", "U+1D6BE",
      "U+1D6BF", "U+1D6C0", "U+1D6C2", "U+1D6C3", "U+1D6C4", "U+1D6C5",
      "U+1D6C6", "U+1D6C7", "U+1D6C8", "U+1D6C9", "U+1D6CA", "U+1D6CB",
      "U+1D6CC", "U+1D6CD", "U+1D6CE", "U+1D6CF", "U+1D6D0", "U+1D6D1",
      "U+1D6D2", "U+1D6D3", "U+1D6D4", "U+1D6D5", "U+1D6D6", "U+1D6D7",
      "U+1D6D8", "U+1D6D9", "U+1D6DA", "U+1D6DC", "U+1D6DD", "U+1D6DE",
      "U+1D6DF", "U+1D6E0", "U+1D6E1", "U+1D6E2", "U+1D6E3", "U+1D6E4",
      "U+1D6E5", "U+1D6E6", "U+1D6E7", "U+1D6E8", "U+1D6E9", "U+1D6EA",
      "U+1D6EB", "U+1D6EC", "U+1D6ED", "U+1D6EE", "U+1D6EF", "U+1D6F0",
      "U+1D6F1", "U+1D6F2", "U+1D6F3", "U+1D6F4", "U+1D6F5", "U+1D6F6",
      "U+1D6F7", "U+1D6F8", "U+1D6F9", "U+1D6FA", "U+1D6FC", "U+1D6FD",
      "U+1D6FE", "U+1D6FF", "U+1D700", "U+1D701", "U+1D702", "U+1D703",
      "U+1D704", "U+1D705", "U+1D706", "U+1D707", "U+1D708", "U+1D709",
      "U+1D70A", "U+1D70B", "U+1D70C", "U+1D70D", "U+1D70E", "U+1D70F",
      "U+1D710", "U+1D711", "U+1D712", "U+1D713", "U+1D714", "U+1D716",
      "U+1D717", "U+1D718", "U+1D719", "U+1D71A", "U+1D71B", "U+1D71C",
      "U+1D71D", "U+1D71E", "U+1D71F", "U+1D720", "U+1D721", "U+1D722",
      "U+1D723", "U+1D724", "U+1D725", "U+1D726", "U+1D727", "U+1D728",
      "U+1D729", "U+1D72A", "U+1D72B", "U+1D72C", "U+1D72D", "U+1D72E",
      "U+1D72F", "U+1D730", "U+1D731", "U+1D732", "U+1D733", "U+1D734",
      "U+1D736", "U+1D737", "U+1D738", "U+1D739", "U+1D73A", "U+1D73B",
      "U+1D73C", "U+1D73D", "U+1D73E", "U+1D73F", "U+1D740", "U+1D741",
      "U+1D742", "U+1D743", "U+1D744", "U+1D745", "U+1D746", "U+1D747",
      "U+1D748", "U+1D749", "U+1D74A", "U+1D74B", "U+1D74C", "U+1D74D",
      "U+1D74E", "U+1D750", "U+1D751", "U+1D752", "U+1D753", "U+1D754",
      "U+1D755", "U+1D756", "U+1D757", "U+1D758", "U+1D759", "U+1D75A",
      "U+1D75B", "U+1D75C", "U+1D75D", "U+1D75E", "U+1D75F", "U+1D760",
      "U+1D761", "U+1D762", "U+1D763", "U+1D764", "U+1D765", "U+1D766",
      "U+1D767", "U+1D768", "U+1D769", "U+1D76A", "U+1D76B", "U+1D76C",
      "U+1D76D", "U+1D76E", "U+1D770", "U+1D771", "U+1D772", "U+1D773",
      "U+1D774", "U+1D775", "U+1D776", "U+1D777", "U+1D778", "U+1D779",
      "U+1D77A", "U+1D77B", "U+1D77C", "U+1D77D", "U+1D77E", "U+1D77F",
      "U+1D780", "U+1D781", "U+1D782", "U+1D783", "U+1D784", "U+1D785",
      "U+1D786", "U+1D787", "U+1D788", "U+1D78A", "U+1D78B", "U+1D78C",
      "U+1D78D", "U+1D78E", "U+1D78F", "U+1D790", "U+1D791", "U+1D792",
      "U+1D793", "U+1D794", "U+1D795", "U+1D796", "U+1D797", "U+1D798",
      "U+1D799", "U+1D79A", "U+1D79B", "U+1D79C", "U+1D79D", "U+1D79E",
      "U+1D79F", "U+1D7A0", "U+1D7A1", "U+1D7A2", "U+1D7A3", "U+1D7A4",
      "U+1D7A5", "U+1D7A6", "U+1D7A7", "U+1D7A8", "U+1D7AA", "U+1D7AB",
      "U+1D7AC", "U+1D7AD", "U+1D7AE", "U+1D7AF", "U+1D7B0", "U+1D7B1",
      "U+1D7B2", "U+1D7B3", "U+1D7B4", "U+1D7B5", "U+1D7B6", "U+1D7B7",
      "U+1D7B8", "U+1D7B9", "U+1D7BA", "U+1D7BB", "U+1D7BC", "U+1D7BD",
      "U+1D7BE", "U+1D7BF", "U+1D7C0", "U+1D7C1", "U+1D7C2", "U+1D7C4",
      "U+1D7C5", "U+1D7C6", "U+1D7C7", "U+1D7C8", "U+1D7C9", "U+1D7CA",
      "U+1D7CB", "U+1DF00", "U+1DF01", "U+1DF02", "U+1DF03", "U+1DF04",
      "U+1DF05", "U+1DF06", "U+1DF07", "U+1DF08", "U+1DF09", "U+1DF0B",
      "U+1DF0C", "U+1DF0D", "U+1DF0E", "U+1DF0F", "U+1DF10", "U+1DF11",
      "U+1DF12", "U+1DF13", "U+1DF14", "U+1DF15", "U+1DF16", "U+1DF17",
      "U+1DF18", "U+1DF19", "U+1DF1A", "U+1DF1B", "U+1DF1C", "U+1DF1D",
      "U+1DF1E", "U+1E900", "U+1E901", "U+1E902", "U+1E903", "U+1E904",
      "U+1E905", "U+1E906", "U+1E907", "U+1E908", "U+1E909", "U+1E90A",
      "U+1E90B", "U+1E90C", "U+1E90D", "U+1E90E", "U+1E90F", "U+1E910",
      "U+1E911", "U+1E912", "U+1E913", "U+1E914", "U+1E915", "U+1E916",
      "U+1E917", "U+1E918", "U+1E919", "U+1E91A", "U+1E91B", "U+1E91C",
      "U+1E91D", "U+1E91E", "U+1E91F", "U+1E920", "U+1E921", "U+1E922",
      "U+1E923", "U+1E924", "U+1E925", "U+1E926", "U+1E927", "U+1E928",
      "U+1E929", "U+1E92A", "U+1E92B", "U+1E92C", "U+1E92D", "U+1E92E",
      "U+1E92F", "U+1E930", "U+1E931", "U+1E932", "U+1E933", "U+1E934",
      "U+1E935", "U+1E936", "U+1E937", "U+1E938", "U+1E939", "U+1E93A",
      "U+1E93B", "U+1E93C", "U+1E93D", "U+1E93E", "U+1E93F", "U+1E940",
      "U+1E941", "U+1E942", "U+1E943", "U+1F130", "U+1F131", "U+1F132",
      "U+1F133", "U+1F134", "U+1F135", "U+1F136", "U+1F137", "U+1F138",
      "U+1F139", "U+1F13A", "U+1F13B", "U+1F13C", "U+1F13D", "U+1F13E",
      "U+1F13F", "U+1F140", "U+1F141", "U+1F142", "U+1F143", "U+1F144",
      "U+1F145", "U+1F146", "U+1F147", "U+1F148", "U+1F149", "U+1F150",
      "U+1F151", "U+1F152", "U+1F153", "U+1F154", "U+1F155", "U+1F156",
      "U+1F157", "U+1F158", "U+1F159", "U+1F15A", "U+1F15B", "U+1F15C",
      "U+1F15D", "U+1F15E", "U+1F15F", "U+1F160", "U+1F161", "U+1F162",
      "U+1F163", "U+1F164", "U+1F165", "U+1F166", "U+1F167", "U+1F168",
      "U+1F169", "U+1F170", "U+1F171", "U+1F172", "U+1F173", "U+1F174",
      "U+1F175", "U+1F176", "U+1F177", "U+1F178", "U+1F179", "U+1F17A",
      "U+1F17B", "U+1F17C", "U+1F17D", "U+1F17E", "U+1F17F", "U+1F180",
      "U+1F181", "U+1F182", "U+1F183", "U+1F184", "U+1F185", "U+1F186",
      "U+1F187", "U+1F188", "U+1F189"
    }

\* the capital sigma at position i of s is a final sigma: the nearest
\* character before it that is not case-ignorable is cased, and the nearest
\* one after it, when there is one, is not
final_sigma(s, i) ==
    /\ \E j \in 1..(i - 1) :
          /\ s[j] \in Cased
          /\ \A k \in (j + 1)..(i - 1) : s[k] \in CaseIgnorable
    /\ ~\E j \in (i + 1)..Len(s) :
           /\ s[j] \in Cased
           /\ \A k \in (i + 1)..(j - 1) : s[k] \in CaseIgnorable

RECURSIVE lower_from(_, _)
\* str.lower() of s from its character i on: a final sigma becomes U+03C2,
\* every other character its lower-case form
lower_from(s, i) ==
    IF i > Len(s) THEN <<>>
    ELSE (IF s[i] = "U+03A3" /\ final_sigma(s, i) THEN <<"U+03C2">> ELSE lower_of(s[i]))
         \o lower_from(s, i + 1)

\* str.lower()
lower(s) == lower_from(s, 1)

\* str(d) for a digit d
DigitChar(d) ==
    CASE d = 0 -> "0" [] d = 1 -> "1" [] d = 2 -> "2" [] d = 3 -> "3" [] d = 4 -> "4"
      [] d = 5 -> "5" [] d = 6 -> "6" [] d = 7 -> "7" [] d = 8 -> "8" [] d = 9 -> "9"

RECURSIVE str_int(_)
\* str(n) for an int n >= 0
str_int(n) == IF n < 10 THEN <<DigitChar(n)>> ELSE str_int(n \div 10) \o <<DigitChar(n % 10)>>

RECURSIVE lstrip(_)
\* str.lstrip()
lstrip(s) ==
    IF s # <<>> /\ Head(s) \in Whitespace THEN lstrip(Tail(s)) ELSE s

RECURSIVE rstrip(_)
\* str.rstrip()
rstrip(s) ==
    IF s # <<>> /\ s[Len(s)] \in Whitespace
    THEN rstrip(SubSeq(s, 1, Len(s) - 1))
    ELSE s

\* str.strip()
strip(s) == rstrip(lstrip(s))

RECURSIVE split(_, _)
\* str.split(sep) for a one-character separator: always at least one piece
split(s, sep) ==
    IF \A i \in 1..Len(s) : s[i] # sep THEN <<s>>
    ELSE LET k == CHOOSE i \in 1..Len(s) :
                      s[i] = sep /\ \A j \in 1..(i - 1) : s[j] # sep
         IN <<SubSeq(s, 1, k - 1)>> \o split(SubSeq(s, k + 1, Len(s)), sep)

RECURSIVE join(_, _)
\* sep.join(parts)
join(sep, parts) ==
    IF parts = <<>> THEN <<>>
    ELSE IF Len(parts) = 1 THEN parts[1]
    ELSE parts[1] \o sep \o join(sep, Tail(parts))

RECURSIVE split_ws(_)
\* str.split() with no argument: the maximal runs of non-whitespace
split_ws(s) ==
    LET t == lstrip(s) IN
    IF t = <<>> THEN <<>>
    ELSE IF \A i \in 1..Len(t) : t[i] \notin Whitespace THEN <<t>>
    ELSE LET k == CHOOSE i \in 1..Len(t) :
                      t[i] \in Whitespace /\ \A j \in 1..(i - 1) : t[j] \notin Whitespace
         IN <<SubSeq(t, 1, k - 1)>> \o split_ws(SubSeq(t, k + 1, Len(t)))

\* needle in haystack, for two strings
IsSubstr(needle, hay) ==
    \E i \in 0..(Len(hay) - Len(needle)) :
        \A j \in 1..Len(needle) : hay[i + j] = needle[j]

(***************************************************************************)
(* re.match on the patterns of the source                                  *)
(*                                                                         *)
(* A pattern is a sequence of atoms; an atom is a character test, an       *)
(* anchor or a group of alternatives, with a quantifier.  Ends(p, s, i)    *)
(* is the set of positions at which a match of p that starts at position i *)
(* of s can end, which is what backtracking explores.                      *)
(***************************************************************************)

Ch(c) == [k |-> "lit", c |-> c, q |-> "1"]
Lit(s) == [i \in 1..Len(s) |-> Ch(s[i])]
Opt(a) == [a EXCEPT !.q = "?"]
Star(a) == [a EXCEPT !.q = "*"]
Plus(a) == [a EXCEPT !.q = "+"]
Bol == [k |-> "bol", q |-> "1"]
Eol == [k |-> "eol", q |-> "1"]
WsAtom == [k |-> "ws", q |-> "1"]
DigitAtom == [k |-> "dig", q |-> "1"]
DotAtom == [k |-> "any", q |-> "1"]
SetAtom(cs) == [k |-> "set", cs |-> cs, q |-> "1"]
Group(alts) == [k |-> "alt", alts |-> alts, q |-> "1"]

\* one character against a character atom; ic is re.IGNORECASE
CharMatch(a, c, ic) ==
    CASE a.k = "lit" -> IF ic THEN fold(c) = fold(a.c) ELSE c = a.c
      [] a.k = "ws" -> c \in Whitespace
      [] a.k = "dig" -> c \in Digits
      [] a.k = "any" -> c # "\n"
      [] a.k = "set" -> c \in a.cs
      [] OTHER -> FALSE

RECURSIVE Ends(_, _, _, _)
RECURSIVE Once(_, _, _, _)
RECURSIVE Repeat(_, _, _, _)

\* one occurrence of atom a at position i
Once(a, s, i, ic) ==
    CASE a.k = "bol" -> IF i = 1 THEN {i} ELSE {}
      [] a.k = "eol" ->
            IF i = Len(s) + 1 \/ (i = Len(s) /\ s[i] = "\n") THEN {i} ELSE {}
      [] a.k = "alt" -> UNION {Ends(a.alts[n], s, i, ic) : n \in 1..Len(a.alts)}
      [] OTHER -> IF i <= Len(s) /\ CharMatch(a, s[i], ic) THEN {i + 1} ELSE {}

\* zero or more occurrences of atom a at position i
Repeat(a, s, i, ic) ==
    {i} \cup UNION {Repeat(a, s, j, ic) : j \in Once(a, s, i, ic) \ {i}}

Ends(p, s, i, ic) ==
    IF p = <<>> THEN {i}
    ELSE LET a == Head(p)
             after == CASE a.q = "1" -> Once(a, s, i, ic)
                        [] a.q = "?" -> {i} \cup Once(a, s, i, ic)
                        [] a.q = "*" -> Repeat(a, s, i, ic)
                        [] a.q = "+" ->
                              UNION {Repeat(a, s, j, ic) : j \in Once(a, s, i, ic)}
         IN UNION {Ends(Tail(p), s, j, ic) : j \in after}

\* re.match(pattern, string, flags) is not None
re_match(pattern, string, ic) == Ends(pattern, string, 1, ic) # {}

(***************************************************************************)
(* Requests, JSON values and responses                                     *)
(***************************************************************************)

\* a Python str: its characters, and what base64.b64decode makes of it
\* (bytes, or BadPadding when it raises binascii.Error)
BadPadding == [t |-> "binascii.Error"]
PyStr(chars, decoded) == [t |-> "str", v |-> chars, decoded |-> decoded]
PyInt(n) == [t |-> "int", v |-> n]
PyBool(b) == [t |-> "bool", v |-> b]
PyList(items) == [t |-> "list", v |-> items]
\* a dict: its keys in insertion order, and the value of each key
PyDict(keys, f) == [t |-> "dict", keys |-> keys, v |-> f]

\* bytes that are no PDF, and the bytes of a PDF document with these pages
NotPdf == [pdf |-> FALSE, pages |-> <<>>]
PdfBytes(pages) == [pdf |-> TRUE, pages |-> pages]

\* the key 'pdf_base64'
K_pdf_base64 == <<"p", "d", "f", "_", "b", "a", "s", "e", "6", "4">>

\* the outcome of an expression: a value, or an exception with its message
Value(v) == [raised |-> FALSE, value |-> v, error |-> ""]
Raise(e) == [raised |-> TRUE, value |-> None, error |-> e]

\* an int or a bool, which is an int in arithmetic and comparison: True is
\* 1 and False is 0
is_int(x) == x.t \in {"int", "bool"}
int_of(x) == IF x.t = "bool" THEN (IF x.v THEN 1 ELSE 0) ELSE x.v

\* bool(x)
truthy(x) ==
    CASE x.t = "none" -> FALSE
      [] x.t = "int" -> x.v # 0
      [] x.t = "bool" -> x.v
      [] x.t = "dict" -> x.keys # <<>>
      [] x.t = "list" -> x.v # <<>>
      [] x.t = "str" -> x.v # <<>>

\* 'pdf_base64' in data
contains_pdf_base64(data) ==
    CASE data.t = "dict" -> Value("pdf_base64" \in DOMAIN data.v)
      [] data.t = "list" ->
            Value(\E i \in 1..Len(data.v) :
                      data.v[i].t = "str" /\ data.v[i].v = K_pdf_base64)
      [] data.t = "str" -> Value(IsSubstr(K_pdf_base64, data.v))
      [] OTHER -> Raise("TypeError")

\* data['pdf_base64'], reached only when 'pdf_base64' in data
subscript_pdf_base64(data) ==
    IF data.t = "dict" THEN Value(data.v["pdf_base64"]) ELSE Raise("TypeError")

\* data.get(key, default) on a dict
dict_get(data, key, default) ==
    IF key \in DOMAIN data.v THEN data.v[key] ELSE default

\* the ASCII characters, U+0000 to U+007F
Ascii ==
    {" ", "!", "\"", "#", "$", "%", "&", "'", "(", ")", "*", "+", ",", "-",
     ".", "/", "0", "1", "2", "3", "4", "5", "6", "7", "8", "9", ":", ";",
     "<", "=", ">", "?", "@", "A", "B", "C", "D", "E", "F", "G", "H", "I",
     "J", "K", "L", "M", "N", "O", "P", "Q", "R", "S", "T", "U", "V", "W",
     "X", "Y", "Z", "[", "\\", "]", "^", "_", "a", "b", "c", "d", "e", "f",
     "g", "h", "i", "j", "k", "l", "m", "n", "o", "p", "q", "r", "s", "t",
     "u", "v", "w", "x", "y", "z", "{", "|", "}", "~", "", "", "", "",
     "", "", "", "", "\t", "\n", "", "\f", "\r", "", "", "", "",
     "", "", "", "", "", "", "", "", "", "", "", "", "", "",
     "", "U+0000", "U+0060"}

\* base64.b64decode(s): a str is encoded as ASCII first, which raises
\* ValueError for a str with another character
b64decode(s) ==
    IF s.t # "str" THEN Raise("TypeError")
    ELSE IF \E i \in 1..Len(s.v) : s.v[i] \notin Ascii THEN Raise("ValueError")
    ELSE IF s.decoded = BadPadding THEN Raise("binascii.Error")
    ELSE Value(s.decoded)

\* https_fn.Response(json.dumps(body), status=status)
Response(status, body) == [status |-> status, body |-> body]

\* what a handler has done for a request: its response and the calls it made
\* on the libraries, in order
Outcome(response, calls) == [resp |-> response, log |-> calls]

\* the number of bytes of the text of a JSON document on the wire
BodyBytes == 2

\* byte k of the text of document doc (what the text parses to, or the
\* exception of a text that is no JSON).  No text is the beginning of
\* another, but for the numbers: the digits of a number followed by digits
\* write another number.  The numbers of the requests have one digit, so
\* that a text cut short holds no number.
Byte(doc, k) == [of |-> doc, k |-> k]

\* the bytes a client sends after the headers: the first r.sent bytes of the
\* text of its document written over and over
Body(r) == AsSeq([i \in 1..r.sent |-> Byte(r.json, ((i - 1) % BodyBytes) + 1)])

\* a connection to the local server (self.rfile): the bytes received and not
\* yet read, and whether the client has shut its side
Connection(data, eof) == [data |-> data, eof |-> eof]

Propagate(e, calls) == Outcome(None, calls)

\* the except clause of every function of main.py
Error500(e, calls) == Outcome(Response(500, [error |-> e]), calls)

\* the 400 answer of the input validation
Error400(msg, calls) == Outcome(Response(400, [error |-> msg]), calls)

\* req.get_json(): the parsed body (None when there is none), or an exception
get_json(r) == r.json

(***************************************************************************)
(* The input validation every function of main.py starts with: either the  *)
(* response that ends the request, or the decoded pdf_bytes.               *)
(***************************************************************************)
Stop(outcome) == [stop |-> TRUE, out |-> outcome, data |-> None, pdf_bytes |-> NotPdf]
Go(data, bytes) ==
    [stop |-> FALSE, out |-> Outcome(None, <<>>), data |-> data, pdf_bytes |-> bytes]

validate_key_only(r) ==
    LET got == get_json(r) IN
    IF got.raised THEN Stop(Error500(got.error, <<>>))
    ELSE LET data == got.value
             has == contains_pdf_base64(data) IN
    IF has.raised THEN Stop(Error500(has.error, <<>>))
    ELSE IF ~has.value THEN Stop(Error400("pdf_base64 required", <<>>))
    ELSE LET item == subscript_pdf_base64(data) IN
    IF item.raised THEN Stop(Error500(item.error, <<>>))
    ELSE LET dec == b64decode(item.value) IN
    IF dec.raised THEN Stop(Error500(dec.error, <<"b64decode">>))
    ELSE Go(data, dec.value)

\* data = req.get_json(); if not data or 'pdf_base64' not in data: 400;
\* pdf_bytes = base64.b64decode(data['pdf_base64'])
validate_pdf_base64(r) ==
    LET got == get_json(r) IN
    IF got.raised THEN Stop(Error500(got.error, <<>>))
    ELSE LET data == got.value IN
    IF ~truthy(data) THEN Stop(Error400("pdf_base64 required", <<>>))
    ELSE LET has == contains_pdf_base64(data) IN
    IF has.raised THEN Stop(Error500(has.error, <<>>))
    ELSE IF ~has.value THEN Stop(Error400("pdf_base64 required", <<>>))
    ELSE LET item == subscript_pdf_base64(data) IN
    IF item.raised THEN Stop(Error500(item.error, <<>>))
    ELSE LET dec == b64decode(item.value) IN
    IF dec.raised THEN Stop(Error500(dec.error, <<"b64decode">>))
    ELSE Go(data, dec.value)

(***************************************************************************)
(* detect_sections                                                         *)
(***************************************************************************)

Section(pattern, name) == [pattern |-> pattern, name |-> name]

kw_abstract == <<"a", "b", "s", "t", "r", "a", "c", "t">>
kw_introduction == <<"i", "n", "t", "r", "o", "d", "u", "c", "t", "i", "o", "n">>
kw_background == <<"b", "a", "c", "k", "g", "r", "o", "u", "n", "d">>
kw_methods == <<"m", "e", "t", "h", "o", "d", "s">>
kw_patients == <<"p", "a", "t", "i", "e", "n", "t", "s">>
kw_materials == <<"m", "a", "t", "e", "r", "i", "a", "l", "s">>
kw_study_design == <<"s", "t", "u", "d", "y", " ", "d", "e", "s", "i", "g", "n">>
kw_subjects == <<"s", "u", "b", "j", "e", "c", "t", "s">>
kw_and_methods == <<" ", "a", "n", "d", " ", "m", "e", "t", "h", "o", "d", "s">>
kw_results == <<"r", "e", "s", "u", "l", "t", "s">>
kw_discussion == <<"d", "i", "s", "c", "u", "s", "s", "i", "o", "n">>
kw_conclusion == <<"c", "o", "n", "c", "l", "u", "s", "i", "o", "n">>
kw_references == <<"r", "e", "f", "e", "r", "e", "n", "c", "e", "s">>
kw_bibliography == <<"b", "i", "b", "l", "i", "o", "g", "r", "a", "p", "h", "y">>
kw_table == <<"t", "a", "b", "l", "e">>
kw_tab == <<"t", "a", "b">>
kw_figure == <<"f", "i", "g", "u", "r", "e">>
kw_fig == <<"f", "i", "g">>

SECTION_PATTERNS == <<
    Section(<<Bol>> \o Lit(kw_abstract) \o <<Eol>>, "abstract"),
    Section(<<Bol, Group(<<Lit(kw_introduction), Lit(kw_background)>>), Eol>>,
            "introduction"),
    Section(<<Bol, Group(<<Lit(kw_methods), Lit(kw_patients), Lit(kw_materials),
                           Lit(kw_study_design), Lit(kw_subjects)>>), Eol>>,
            "methods"),
    Section(<<Bol, Group(<<Lit(kw_patients \o kw_and_methods),
                           Lit(kw_materials \o kw_and_methods)>>), Eol>>,
            "methods"),
    Section(<<Bol>> \o Lit(kw_results) \o <<Eol>>, "results"),
    Section(<<Bol>> \o Lit(kw_discussion) \o <<Eol>>, "discussion"),
    Section(<<Bol, Group(<<Lit(kw_conclusion), Lit(kw_conclusion \o <<"s">>)>>), Eol>>,
            "conclusion"),
    Section(<<Bol, Group(<<Lit(kw_references), Lit(kw_bibliography)>>), Eol>>,
            "references"),
    Section(<<Bol>> \o Lit(kw_table) \o <<Star(WsAtom), DigitAtom>>, "table"),
    Section(<<Bol, Group(<<Lit(kw_figure), Lit(kw_fig) \o <<Opt(Ch("."))>>>>),
              Star(WsAtom), DigitAtom>>, "figure")
>>

\* what page.extract_text() returns for a page without text when it returns
\* None; no text equals it, the characters of a text being one-character strings
NoText == <<"None">>

\* page.extract_text() or ""
extract_text_or_empty(page) == IF page.text = NoText THEN <<>> ELSE page.text

\* the locals of detect_sections before the first page
SectionsStart ==
    [sections |-> <<>>, current_section |-> "unknown", section_start |-> 0,
     global_char_index |-> 0]

\* start_section that ends the previous section before the newline of its
\* last line
start_section_before_newline(st, section_name, page_num) ==
    [st EXCEPT
        !.sections = IF st.current_section # "unknown"
                     THEN Append(@, [name |-> st.current_section,
                                     start_char |-> st.section_start,
                                     end_char |-> st.global_char_index - 1,
                                     page |-> page_num])
                     ELSE @,
        !.current_section = section_name,
        !.section_start = st.global_char_index]

\* the body of "if re.match(...)": save the previous section, start the new one
start_section(st, section_name, page_num) ==
    [st EXCEPT
        !.sections = IF st.current_section # "unknown"
                     THEN Append(@, [name |-> st.current_section,
                                     start_char |-> st.section_start,
                                     end_char |-> st.global_char_index,
                                     page |-> page_num])
                     ELSE @,
        !.current_section = section_name,
        !.section_start = st.global_char_index]

RECURSIVE match_patterns(_, _, _, _)
\* for pattern, section_name in SECTION_PATTERNS: ... break, from the k-th pattern
match_patterns(st, line_lower, page_num, k) ==
    IF k > Len(SECTION_PATTERNS) THEN st
    ELSE IF re_match(SECTION_PATTERNS[k].pattern, line_lower, TRUE)
    THEN start_section(st, SECTION_PATTERNS[k].name, page_num)
    ELSE match_patterns(st, line_lower, page_num, k + 1)

\* scan_line without the strip of the line
scan_line_unstripped(st, line, page_num) ==
    LET line_lower == lower(line)
        st2 == match_patterns(st, line_lower, page_num, 1)
    IN [st2 EXCEPT !.global_char_index = @ + Len(line) + 1]

\* the body of "for line in lines"
scan_line(st, line, page_num) ==
    LET line_lower == lower(strip(line))
        st2 == match_patterns(st, line_lower, page_num, 1)
    IN [st2 EXCEPT !.global_char_index = @ + Len(line) + 1]

RECURSIVE scan_lines(_, _, _)
scan_lines(st, lines, page_num) ==
    IF lines = <<>> THEN st
    ELSE scan_lines(scan_line(st, Head(lines), page_num), Tail(lines), page_num)

RECURSIVE scan_pages_page_offset(_, _, _)
\* scan_pages with an offset that starts again at 0 on every page
scan_pages_page_offset(st, pages, page_num) ==
    IF page_num > Len(pages) THEN Value(st)
    ELSE IF pages[page_num].broken THEN Raise("PDFSyntaxError")
    ELSE LET lines == split(extract_text_or_empty(pages[page_num]), "\n")
         IN scan_pages_page_offset(
                scan_lines([st EXCEPT !.global_char_index = 0], lines, page_num),
                pages, page_num + 1)

RECURSIVE scan_pages(_, _, _)
\* for page_num, page in enumerate(pdf.pages, 1), from page page_num on;
\* a page whose extraction raises ends the loop with the exception
scan_pages(st, pages, page_num) ==
    IF page_num > Len(pages) THEN Value(st)
    ELSE IF pages[page_num].broken THEN Raise("PDFSyntaxError")
    ELSE LET lines == split(extract_text_or_empty(pages[page_num]), "\n")
         IN scan_pages(scan_lines(st, lines, page_num), pages, page_num + 1)

\* final_sections that reports the text before the first heading as well
final_sections_with_unknown(st, page_count) ==
    Append(st.sections, [name |-> st.current_section,
                         start_char |-> st.section_start,
                         end_char |-> st.global_char_index,
                         page |-> page_count])

\* "Add final section": page_num is the last value of the loop variable
final_sections(st, page_count) ==
    IF st.current_section # "unknown"
    THEN Append(st.sections, [name |-> st.current_section,
                              start_char |-> st.section_start,
                              end_char |-> st.global_char_index,
                              page |-> page_count])
    ELSE st.sections

\* sections_of with the final section on the first page
sections_of_final_on_first_page(pages) ==
    LET scanned == scan_pages(SectionsStart, pages, 1) IN
    IF scanned.raised THEN scanned
    ELSE Value(final_sections(scanned.value, 1))

\* the sections of an opened document (both servers)
sections_of(pages) ==
    LET scanned == scan_pages(SectionsStart, pages, 1) IN
    IF scanned.raised THEN scanned
    ELSE Value(final_sections(scanned.value, Len(pages)))

\* main.detect_sections
detect_sections(r) ==
    LET v == validate_pdf_base64(r) IN
    IF v.stop THEN v.out
    ELSE IF ~v.pdf_bytes.pdf THEN Error500("PDFSyntaxError", <<"b64decode", "open">>)
    ELSE LET found == sections_of(v.pdf_bytes.pages) IN
    IF found.raised THEN Error500(found.error, <<"b64decode", "open", "close">>)
    ELSE Outcome(Response(200, [success |-> TRUE, sections |-> found.value,
                                section_count |-> Len(found.value)]),
                 <<"b64decode", "open", "close">>)

(***************************************************************************)
(* extract_text_with_positions                                             *)
(***************************************************************************)

\* the locals of extract_text_with_positions before the first page
PositionsStart == [positions |-> <<>>, full_text |-> <<>>, global_char_index |-> 0]

\* the body of "for word in words"
add_word(st, word, page_num) ==
    LET text == word.text
        start_char == st.global_char_index
        end_char == st.global_char_index + Len(text)
        full_text == st.full_text \o text \o <<" ">>
    IN [positions |-> Append(st.positions,
                             [text |-> text, startChar |-> start_char,
                              endChar |-> end_char, x |-> word.x0, y |-> word.top,
                              width |-> word.x1 - word.x0,
                              height |-> word.bottom - word.top,
                              page |-> page_num]),
        full_text |-> full_text,
        global_char_index |-> Len(full_text)]

RECURSIVE add_words(_, _, _)
add_words(st, words, page_num) ==
    IF words = <<>> THEN st
    ELSE add_words(add_word(st, Head(words), page_num), Tail(words), page_num)

\* end_page with a separator of one newline
end_page_single_newline(st) ==
    LET full_text == st.full_text \o <<"\n">>
    IN [st EXCEPT !.full_text = full_text, !.global_char_index = Len(full_text)]

\* "Page separator"
end_page(st) ==
    LET full_text == st.full_text \o <<"\n", "\n">>
    IN [st EXCEPT !.full_text = full_text, !.global_char_index = Len(full_text)]

RECURSIVE words_of_pages(_, _, _)
\* for page_num, page in enumerate(pdf.pages, 1), from page page_num on
words_of_pages(st, pages, page_num) ==
    IF page_num > Len(pages) THEN Value(st)
    ELSE IF pages[page_num].broken THEN Raise("PDFSyntaxError")
    ELSE words_of_pages(end_page(add_words(st, pages[page_num].words, page_num)),
                        pages, page_num + 1)

\* page_num after the loop: the number of the last page; with no page the loop
\* never assigns it and it keeps what it held before the loop
page_num_after(pages, before) ==
    IF Len(pages) > 0 THEN Value(Len(pages)) ELSE before

\* main.extract_text_with_positions: page_num is not assigned before the loop
extract_text_with_positions(r) ==
    LET v == validate_pdf_base64(r) IN
    IF v.stop THEN v.out
    ELSE IF ~v.pdf_bytes.pdf THEN Error500("PDFSyntaxError", <<"b64decode", "open">>)
    ELSE LET done == words_of_pages(PositionsStart, v.pdf_bytes.pages, 1)
             page_num == page_num_after(v.pdf_bytes.pages, Raise("UnboundLocalError"))
             calls == <<"b64decode", "open", "close">>
    IN IF done.raised THEN Error500(done.error, calls)
       ELSE IF page_num.raised THEN Error500(page_num.error, calls)
       ELSE Outcome(Response(200, [success |-> TRUE,
                                   text |-> strip(done.value.full_text),
                                   positions |-> done.value.positions,
                                   page_count |-> page_num.value]),
                    calls)

(***************************************************************************)
(* extract_text_with_layout                                                *)
(***************************************************************************)

\* 'multipart' in req.content_type; a content type is a str, the empty one
\* when the request has no Content-Type header
contains_multipart(content_type) ==
    IsSubstr(<<"m", "u", "l", "t", "i", "p", "a", "r", "t">>, content_type)

\* f"\n\n--- Page {i + 1} ---\n\n{page_text}"
page_marker(n, page_text) ==
    <<"\n", "\n", "-", "-", "-", " ", "P", "a", "g", "e", " ">> \o str_int(n)
    \o <<" ", "-", "-", "-", "\n", "\n">> \o page_text

\* the locals of extract_text_with_layout before the first page
LayoutStart == [pages_text |-> <<>>, full_text |-> <<>>]

RECURSIVE layout_of_pages(_, _, _)
\* for i, page in enumerate(pdf.pages), from index i (0-based) on
layout_of_pages(st, pages, i) ==
    IF i >= Len(pages) THEN Value(st)
    ELSE IF pages[i + 1].broken THEN Raise("PDFSyntaxError")
    ELSE LET page == pages[i + 1]
             page_text == extract_text_or_empty(page)
         IN layout_of_pages(
                [pages_text |-> Append(st.pages_text,
                                       [page |-> i + 1, text |-> page_text,
                                        width |-> page.width, height |-> page.height]),
                 full_text |-> st.full_text \o page_marker(i + 1, page_text)],
                pages, i + 1)

\* the result dict with the text as accumulated
layout_result_unstripped(pages) ==
    LET done == layout_of_pages(LayoutStart, pages, 0) IN
    IF done.raised THEN done
    ELSE Value([success |-> TRUE, text |-> done.value.full_text,
                pages |-> done.value.pages_text,
                page_count |-> Len(done.value.pages_text)])

\* the result dict of extract_text_with_layout for an opened document
layout_result(pages) ==
    LET done == layout_of_pages(LayoutStart, pages, 0) IN
    IF done.raised THEN done
    ELSE Value([success |-> TRUE, text |-> strip(done.value.full_text),
                pages |-> done.value.pages_text,
                page_count |-> Len(done.value.pages_text)])

\* with pdfplumber.open(io.BytesIO(pdf_bytes)) as pdf: ...; the response of a
\* function of main.py that computes result(pages) inside the with block
with_pdfplumber(pdf_bytes, result, calls) ==
    IF ~pdf_bytes.pdf THEN Error500("PDFSyntaxError", calls \o <<"open">>)
    ELSE IF result.raised THEN Error500(result.error, calls \o <<"open", "close">>)
    ELSE Outcome(Response(200, result.value), calls \o <<"open", "close">>)

\* main.extract_text_with_layout
extract_text_with_layout(r) ==
    IF r.content_type # <<>> /\ contains_multipart(r.content_type)
    THEN IF r.file = None
         THEN Error400("No file provided", <<>>)
         ELSE with_pdfplumber(r.file, layout_result(r.file.pages), <<>>)
    ELSE LET v == validate_pdf_base64(r) IN
         IF v.stop THEN v.out
         ELSE with_pdfplumber(v.pdf_bytes, layout_result(v.pdf_bytes.pages),
                              <<"b64decode">>)

(***************************************************************************)
(* extract_tables                                                          *)
(***************************************************************************)

\* "cell if cell else ''": None and '' are falsy
falsy_text(cell) == cell = NoText \/ cell = <<>>
clean_cell(cell) == IF falsy_text(cell) THEN <<>> ELSE cell

\* [[cell if cell else "" for cell in row] for row in table]
clean_table(table) ==
    AsSeq([i \in 1..Len(table) |->
              AsSeq([j \in 1..Len(table[i]) |-> clean_cell(table[i][j])])])

table_entry_all_rows(table, i, j) ==
    LET cleaned_table == clean_table(table) IN
    [page |-> i + 1, table_index |-> j,
     headers |-> IF cleaned_table # <<>> THEN cleaned_table[1] ELSE <<>>,
     rows |-> cleaned_table,
     raw |-> cleaned_table]

\* the entry of one table
table_entry(table, i, j) ==
    LET cleaned_table == clean_table(table) IN
    [page |-> i + 1, table_index |-> j,
     headers |-> IF cleaned_table # <<>> THEN cleaned_table[1] ELSE <<>>,
     rows |-> IF Len(cleaned_table) > 1 THEN Tail(cleaned_table) ELSE <<>>,
     raw |-> cleaned_table]

RECURSIVE tables_of_page(_, _, _, _)
\* for j, table in enumerate(page_tables), from index j (0-based) on
tables_of_page(tables_result, page_tables, i, j) ==
    IF j >= Len(page_tables) THEN tables_result
    ELSE tables_of_page(
            IF page_tables[j + 1] # <<>>
            THEN Append(tables_result, table_entry(page_tables[j + 1], i, j))
            ELSE tables_result,
            page_tables, i, j + 1)

RECURSIVE tables_of_pages(_, _, _)
\* for i, page in enumerate(pdf.pages), from index i (0-based) on
tables_of_pages(tables_result, pages, i) ==
    IF i >= Len(pages) THEN Value(tables_result)
    ELSE IF pages[i + 1].broken THEN Raise("PDFSyntaxError")
    ELSE tables_of_pages(tables_of_page(tables_result, pages[i + 1].tables, i, 0),
                         pages, i + 1)

\* the result dict of extract_tables for an opened document
tables_result_of(pages) ==
    LET done == tables_of_pages(<<>>, pages, 0) IN
    IF done.raised THEN done
    ELSE Value([success |-> TRUE, tables |-> done.value,
                table_count |-> Len(done.value)])

\* main.extract_tables
extract_tables(r) ==
    LET v == validate_pdf_base64(r) IN
    IF v.stop THEN v.out
    ELSE with_pdfplumber(v.pdf_bytes, tables_result_of(v.pdf_bytes.pages),
                         <<"b64decode">>)

(***************************************************************************)
(* extract_figures                                                         *)
(***************************************************************************)

\* the base64 PNG of the crop of image on its page: named by the image
png_of(image) == [png |-> image.xref]

\* the entry of one image of page.images
figure_entry(image, i) ==
    [page |-> i + 1, image_base64 |-> png_of(image), bbox |-> image.bbox,
     width |-> image.width, height |-> image.height]

RECURSIVE figures_of_page(_, _, _, _)
\* for image in page.images, from the k-th on; page.crop or to_image raises
\* for an image that is not ok
figures_of_page(figures, images, i, k) ==
    IF k > Len(images) THEN Value(figures)
    ELSE IF ~images[k].ok THEN Raise("ValueError")
    ELSE figures_of_page(Append(figures, figure_entry(images[k], i)), images, i, k + 1)

RECURSIVE figures_of_pages(_, _, _)
figures_of_pages(figures, pages, i) ==
    IF i >= Len(pages) THEN Value(figures)
    ELSE IF pages[i + 1].broken THEN Raise("PDFSyntaxError")
    ELSE LET more == figures_of_page(figures, pages[i + 1].images, i, 1) IN
         IF more.raised THEN more ELSE figures_of_pages(more.value, pages, i + 1)

\* main.extract_figures
extract_figures(r) ==
    LET v == validate_pdf_base64(r) IN
    IF v.stop THEN v.out
    ELSE LET done == figures_of_pages(<<>>, v.pdf_bytes.pages, 0)
             result == IF done.raised THEN done
                       ELSE Value([success |-> TRUE, figures |-> done.value,
                                   figure_count |-> Len(done.value)])
         IN with_pdfplumber(v.pdf_bytes, result, <<"b64decode">>)

(***************************************************************************)
(* capture_highlights and generate_html_report                             *)
(*                                                                         *)
(* Pixel coordinates are floats (scale = dpi / 72.0); page, dpi, padding   *)
(* and the coordinates of a highlight are ints, a bool being the int 1 or  *)
(* 0.                                                                      *)
(***************************************************************************)

\* a str that is no base64 text
StrOf(chars) == PyStr(chars, BadPadding)

\* the least integer >= a / b, for b > 0
CeilDiv(a, b) == -((-a) \div b)

\* the width or height in pixels of the pixmap of a page side of the given
\* length in points
pixels(length, dpi) == CeilDiv(length * dpi, 72)

(***************************************************************************)
(* Python floats.  scale = dpi / 72.0 and every coordinate computed from   *)
(* it is an IEEE 754 double: 53 significant bits, every operation rounded  *)
(* to the nearest double, a tie to the even one.  A float of the model is  *)
(* its sign, its integer part and the bits of its fraction, the first bit  *)
(* being 1/2; the fraction has room for the 53 bits of a value as small    *)
(* as 2^-11, and 1 / 72.0 is the smallest scale of a positive int dpi.     *)
(***************************************************************************)

FracBits == 53 + 11

Float(neg, int, frac) == [neg |-> neg, int |-> int, frac |-> AsSeq(frac)]

\* float(n) for an int n
float_of_int(n) ==
    Float(n < 0, IF n < 0 THEN -n ELSE n, [k \in 1..FracBits |-> 0])

RECURSIVE BitLength(_)
\* int.bit_length()
BitLength(n) == IF n = 0 THEN 0 ELSE 1 + BitLength(n \div 2)

\* the double nearest to the value int + frac (+ something less than the
\* last bit of frac, when sticky): the first 53 bits from the leading one
\* are kept (keep bits of the fraction) and the rest rounds them up or
\* down, a tie to the even one
round53(neg, int, frac, sticky) ==
    LET incremented(last) ==
            Float(neg, int,
                  [k \in 1..FracBits |->
                      IF k < last THEN frac[k] ELSE IF k = last THEN 1 ELSE 0])
        rounded(keep) ==
            IF keep >= FracBits
            THEN Float(neg /\ (int # 0 \/ \E k \in 1..FracBits : frac[k] = 1), int, frac)
            ELSE IF ~(/\ frac[keep + 1] = 1
                      /\ \/ sticky
                         \/ frac[keep] = 1
                         \/ \E k \in (keep + 2)..FracBits : frac[k] = 1)
            THEN Float(neg /\ (int # 0 \/ \E k \in 1..keep : frac[k] = 1), int,
                       [k \in 1..FracBits |-> IF k <= keep THEN frac[k] ELSE 0])
            ELSE IF \A k \in 1..keep : frac[k] = 1
            THEN Float(neg, int + 1, [k \in 1..FracBits |-> 0])
            ELSE incremented(CHOOSE k \in 1..keep :
                                frac[k] = 0 /\ \A j \in (k + 1)..keep : frac[j] = 1)
    IN rounded(IF int > 0 THEN 53 - BitLength(int)
               ELSE IF \A k \in 1..FracBits : frac[k] = 0 THEN FracBits
               ELSE 52 + CHOOSE k \in 1..FracBits :
                            frac[k] = 1 /\ \A j \in 1..(k - 1) : frac[j] = 0)

\* the eight bits of each byte 0..255, the byte n at n + 1
ByteBits ==
    AsSeq([k \in 1..256 |->
              << ((k - 1) \div 128) % 2, ((k - 1) \div 64) % 2, ((k - 1) \div 32) % 2,
                 ((k - 1) \div 16) % 2, ((k - 1) \div 8) % 2, ((k - 1) \div 4) % 2,
                 ((k - 1) \div 2) % 2, (k - 1) % 2 >>])

\* the bits of a fraction taken eight at a time, each group as a byte
FracBytes(frac) ==
    AsSeq([i \in 1..(FracBits \div 8) |->
              LET bit(k) == frac[8 * (i - 1) + k]
              IN bit(1) * 128 + bit(2) * 64 + bit(3) * 32 + bit(4) * 16
                 + bit(5) * 8 + bit(6) * 4 + bit(7) * 2 + bit(8)])

\* the bits of a fraction given as its FracBits / 8 bytes
FracOfBytes(bytes) ==
    ByteBits[bytes[1] + 1] \o ByteBits[bytes[2] + 1] \o ByteBits[bytes[3] + 1]
    \o ByteBits[bytes[4] + 1] \o ByteBits[bytes[5] + 1] \o ByteBits[bytes[6] + 1]
    \o ByteBits[bytes[7] + 1] \o ByteBits[bytes[8] + 1]

RECURSIVE DivBytes(_, _, _)
\* the first n bytes of the fraction rem / d, for rem < d < 2^23, and the
\* remainder after them
DivBytes(rem, d, n) ==
    IF n = 0 THEN [bytes |-> <<>>, rem |-> rem]
    ELSE LET rest == DivBytes((rem * 256) % d, d, n - 1)
         IN [bytes |-> <<(rem * 256) \div d>> \o rest.bytes, rem |-> rest.rem]

\* n / float(d) for two ints, d > 0
truediv(n, d) ==
    LET a == IF n < 0 THEN -n ELSE n
        rounded(q) == round53(n < 0, a \div d, FracOfBytes(q.bytes), q.rem # 0)
    IN rounded(DivBytes(a % d, d, FracBits \div 8))

RECURSIVE MulBytes(_, _, _)
\* the fraction from its byte i on, times the int a with 0 <= a < 2^23: the
\* bytes of the product and the carry into the byte before i
MulBytes(a, bytes, i) ==
    IF i > Len(bytes) THEN [bytes |-> <<>>, carry |-> 0]
    ELSE LET product(low) ==
                 [bytes |-> <<(a * bytes[i] + low.carry) % 256>> \o low.bytes,
                  carry |-> (a * bytes[i] + low.carry) \div 256]
         IN product(MulBytes(a, bytes, i + 1))

\* x * f for an int x and a float f
float_mul(x, f) ==
    LET a == IF x < 0 THEN -x ELSE x
        rounded(m) == round53((x < 0) # f.neg, a * f.int + m.carry, FracOfBytes(m.bytes), FALSE)
    IN rounded(MulBytes(a, FracBytes(f.frac), 1))

\* f + q for a float f and an int q; f - q is f + (-q)
float_add(f, q) ==
    LET a == IF q < 0 THEN -q ELSE q
        borrowed(last) ==
            [k \in 1..FracBits |-> IF k < last THEN 1 - f.frac[k] ELSE f.frac[k]]
    IN IF a = 0 THEN f
       ELSE IF f.neg = (q < 0) THEN round53(f.neg, f.int + a, f.frac, FALSE)
       ELSE IF f.int >= a THEN round53(f.neg, f.int - a, f.frac, FALSE)
       ELSE IF \A k \in 1..FracBits : f.frac[k] = 0
       THEN round53(q < 0, a - f.int, f.frac, FALSE)
       ELSE round53(q < 0, a - f.int - 1,
                    borrowed(CHOOSE k \in 1..FracBits :
                                /\ f.frac[k] = 1
                                /\ \A j \in (k + 1)..FracBits : f.frac[j] = 0),
                    FALSE)

\* a < b for two floats
float_lt(a, b) ==
    LET below(x, y) ==
            \/ x.int < y.int
            \/ /\ x.int = y.int
               /\ \E k \in 1..FracBits :
                     /\ x.frac[k] < y.frac[k]
                     /\ SubSeq(x.frac, 1, k - 1) = SubSeq(y.frac, 1, k - 1)
    IN IF a.neg # b.neg THEN a.neg
       ELSE IF a.neg THEN below(b, a) ELSE below(a, b)

\* max(a, b) and min(a, b): the first argument unless the second is greater
\* (less)
Max2(a, b) == IF float_lt(a, b) THEN b ELSE a
Min2(a, b) == IF float_lt(b, a) THEN b ELSE a

\* round(f): the nearest int, a half to the even one
round_half_even(f) ==
    LET up == f.frac[1] = 1 /\ (f.int % 2 = 1 \/ \E k \in 2..FracBits : f.frac[k] = 1)
        n == IF up THEN f.int + 1 ELSE f.int
    IN IF f.neg THEN -n ELSE n

\* highlight.get(key, default) * scale
scaled(highlight, key, default, scale) ==
    LET x == dict_get(highlight, key, PyInt(default)) IN
    IF ~is_int(x) THEN Raise("TypeError") ELSE Value(float_mul(int_of(x), scale))

Skip == [kind |-> "skip", error |-> "", page |-> None, label |-> None, text |-> None,
         rect |-> <<>>, crop |-> <<>>]
Failed(e) == [Skip EXCEPT !.kind = "raise", !.error = e]

\* the box widened by pad on every side and clamped to the image:
\* max(0, x0 - pad), max(0, y0 - pad), min(width, x1 + pad),
\* min(height, y1 + pad); a box is <<x0, y0, x1, y1>>
padded(box, pad, width, height) ==
    << Max2(float_of_int(0), float_add(box[1], -pad)),
       Max2(float_of_int(0), float_add(box[2], -pad)),
       Min2(float_of_int(width), float_add(box[3], pad)),
       Min2(float_of_int(height), float_add(box[4], pad)) >>

\* draw.rectangle([x0, y0, x1, y1]) and img.crop((crop_x0, ...)):
\* ImageDraw.rectangle and Image.crop raise ValueError for a box whose right
\* is less than its left or whose lower is less than its upper
drawn(highlight, rect, crop) ==
    IF \/ float_lt(rect[3], rect[1]) \/ float_lt(rect[4], rect[2])
       \/ float_lt(crop[3], crop[1]) \/ float_lt(crop[4], crop[2])
    THEN Failed("ValueError")
    ELSE [kind |-> "shot", error |-> "",
          page |-> dict_get(highlight, "page", PyInt(1)),
          label |-> dict_get(highlight, "label", StrOf(<<>>)),
          text |-> dict_get(highlight, "text", StrOf(<<>>)),
          rect |-> rect, crop |-> crop]

\* render_highlight with a padded rectangle that is not clamped to the image
render_highlight_unclamped(highlight, pages, dpi, padding, factor) ==
    IF highlight.t # "dict" THEN Failed("AttributeError")
    ELSE LET page == dict_get(highlight, "page", PyInt(1)) IN
    IF ~is_int(page) THEN Failed("TypeError")
    ELSE LET page_num == int_of(page) - 1 IN
    IF page_num < 0 \/ page_num >= Len(pages) THEN Skip
    ELSE IF ~is_int(dpi) THEN Failed("TypeError")
    ELSE IF pages[page_num + 1].broken \/ int_of(dpi) <= 0 THEN Failed("RuntimeError")
    ELSE LET width == pixels(pages[page_num + 1].width, int_of(dpi))
             height == pixels(pages[page_num + 1].height, int_of(dpi))
             cropped(rect) ==
                 drawn(highlight, rect,
                       padded(rect, int_of(padding) * factor, width, height))
             boxed(x0, y0, x1, y1) ==
                 IF x0.raised \/ y0.raised \/ x1.raised \/ y1.raised \/ ~is_int(padding)
                 THEN Failed("TypeError")
                 ELSE cropped(<< float_add(x0.value, -int_of(padding)),
                                 float_add(y0.value, -int_of(padding)),
                                 float_add(x1.value, int_of(padding)),
                                 float_add(y1.value, int_of(padding)) >>)
             scaled_by(scale) ==
                 boxed(scaled(highlight, "x0", 0, scale), scaled(highlight, "y0", 0, scale),
                       scaled(highlight, "x1", 100, scale), scaled(highlight, "y1", 50, scale))
         IN scaled_by(truediv(int_of(dpi), 72))

\* the body of "for highlight in highlights" up to the crop: the highlight is
\* skipped, or rendered (its padded rectangle and its crop box, in pixels), or
\* an exception ends the request; factor is 3 in capture_highlights and 2 in
\* generate_html_report
render_highlight(highlight, pages, dpi, padding, factor) ==
    IF highlight.t # "dict" THEN Failed("AttributeError")
    ELSE LET page == dict_get(highlight, "page", PyInt(1)) IN
    IF ~is_int(page) THEN Failed("TypeError")
    ELSE LET page_num == int_of(page) - 1 IN
    IF page_num < 0 \/ page_num >= Len(pages) THEN Skip
    ELSE IF ~is_int(dpi) THEN Failed("TypeError")
    ELSE IF pages[page_num + 1].broken \/ int_of(dpi) <= 0 THEN Failed("RuntimeError")
    ELSE LET width == pixels(pages[page_num + 1].width, int_of(dpi))
             height == pixels(pages[page_num + 1].height, int_of(dpi))
             \* context_padding = padding * factor; the crop box
             cropped(rect) ==
                 drawn(highlight, rect,
                       padded(rect, int_of(padding) * factor, width, height))
             \* x0 = max(0, x0 - padding), ...: the rectangle that is drawn
             boxed(x0, y0, x1, y1) ==
                 IF x0.raised \/ y0.raised \/ x1.raised \/ y1.raised \/ ~is_int(padding)
                 THEN Failed("TypeError")
                 ELSE cropped(padded(<<x0.value, y0.value, x1.value, y1.value>>,
                                     int_of(padding), width, height))
             \* x0 = highlight.get('x0', 0) * scale, ...
             scaled_by(scale) ==
                 boxed(scaled(highlight, "x0", 0, scale), scaled(highlight, "y0", 0, scale),
                       scaled(highlight, "x1", 100, scale), scaled(highlight, "y1", 50, scale))
         IN scaled_by(truediv(int_of(dpi), 72))

\* the base64 PNG of a crop of the rendered, highlighted page
png_of_crop(shot) ==
    [page |-> int_of(shot.page), rect |-> shot.rect, crop |-> shot.crop]

\* cropped.width and cropped.height: Image.crop rounds the box
cropped_width(shot) == round_half_even(shot.crop[3]) - round_half_even(shot.crop[1])
cropped_height(shot) == round_half_even(shot.crop[4]) - round_half_even(shot.crop[2])

\* the entry capture_highlights appends
capture_entry(shot) ==
    [page |-> shot.page, label |-> shot.label, text |-> shot.text,
     image_base64 |-> png_of_crop(shot),
     width |-> cropped_width(shot), height |-> cropped_height(shot)]

\* the entry generate_html_report appends
report_entry(shot) ==
    [label |-> shot.label, text |-> shot.text,
     image_base64 |-> png_of_crop(shot), page |-> shot.page]

RECURSIVE render_highlights_break(_, _, _, _, _, _, _)
\* render_highlights that leaves the loop at the first highlight it skips
render_highlights_break(shots, highlights, pages, dpi, padding, factor, k) ==
    IF k > Len(highlights) THEN Value(shots)
    ELSE LET continued(shot) ==
                 IF shot.kind = "raise" THEN Raise(shot.error)
                 ELSE IF shot.kind = "skip" THEN Value(shots)
                 ELSE render_highlights_break(Append(shots, shot), highlights,
                                              pages, dpi, padding, factor, k + 1)
         IN continued(render_highlight(highlights[k], pages, dpi, padding, factor))

RECURSIVE render_highlights(_, _, _, _, _, _, _)
\* for highlight in highlights, from the k-th on
render_highlights(shots, highlights, pages, dpi, padding, factor, k) ==
    IF k > Len(highlights) THEN Value(shots)
    ELSE LET continued(shot) ==
                 IF shot.kind = "raise" THEN Raise(shot.error)
                 ELSE render_highlights(
                         IF shot.kind = "skip" THEN shots ELSE Append(shots, shot),
                         highlights, pages, dpi, padding, factor, k + 1)
         IN continued(render_highlight(highlights[k], pages, dpi, padding, factor))

\* "for highlight in highlights" over a value that need not be a list
iterate_highlights(highlights, pages, dpi, padding, factor) ==
    IF highlights.t \in {"str", "dict"} THEN Raise("AttributeError")
    ELSE IF highlights.t # "list" THEN Raise("TypeError")
    ELSE render_highlights(<<>>, highlights.v, pages, dpi, padding, factor, 1)

no_highlights_when_none(highlights) == highlights = None

\* "if not highlights"
no_highlights(highlights) == ~truthy(highlights)

\* main.capture_highlights; doc.close() is reached on the normal path only
capture_highlights(r) ==
    LET v == validate_pdf_base64(r) IN
    IF v.stop THEN v.out
    ELSE LET highlights == dict_get(v.data, "highlights", PyList(<<>>))
             dpi == dict_get(v.data, "dpi", PyInt(200))
             padding == dict_get(v.data, "padding", PyInt(15))
    IN IF no_highlights(highlights)
       THEN Error400("highlights array required", <<"b64decode">>)
       ELSE IF ~v.pdf_bytes.pdf
       THEN Error500("FileDataError", <<"b64decode", "open">>)
       ELSE LET answered(screenshots) ==
                    Outcome(Response(200, [success |-> TRUE,
                                           screenshots |-> screenshots,
                                           screenshot_count |-> Len(screenshots)]),
                            <<"b64decode", "open", "close">>)
                captured(shots) ==
                    IF shots.raised
                    THEN Error500(shots.error, <<"b64decode", "open">>)
                    ELSE answered(AsSeq([k \in 1..Len(shots.value) |->
                                            capture_entry(shots.value[k])]))
            IN captured(iterate_highlights(highlights, v.pdf_bytes.pages,
                                           dpi, padding, 3))

evidence_card_linked(shot) ==
    [label |-> shot.label, text |-> shot.text, page |-> shot.page,
     src |-> [scheme |-> "https://", data |-> shot.image_base64],
     alt |-> shot.label]

\* one evidence card of the report
evidence_card(shot) ==
    [label |-> shot.label, text |-> shot.text, page |-> shot.page,
     src |-> [scheme |-> "data:image/png;base64", data |-> shot.image_base64],
     alt |-> shot.label]

RECURSIVE render_field(_, _)
RECURSIVE render_items(_, _, _)

\* render_field(name, field): the table rows of one field; name is the
\* dotted path, a str as the keys of a dict are
render_field(name, field) ==
    IF field.t = "dict"
    THEN IF "value" \in DOMAIN field.v
         THEN << [name |-> name, value |-> field.v["value"], columns |-> 3,
                  source |-> dict_get(field, "sourceText", StrOf(<<"N", "/", "A">>))] >>
         ELSE render_items(name, field, 1)
    ELSE << [name |-> name, value |-> field, columns |-> 2, source |-> None] >>

render_items_first_only(name, field, k) ==
    IF k > Len(field.keys) THEN <<>>
    ELSE render_field(name \o "." \o field.keys[k], field.v[field.keys[k]])

\* for k, v in field.items(): rows += render_field(f"{name}.{k}", v)
render_items(name, field, k) ==
    IF k > Len(field.keys) THEN <<>>
    ELSE render_field(name \o "." \o field.keys[k], field.v[field.keys[k]])
         \o render_items(name, field, k + 1)

RECURSIVE extraction_rows(_, _)
\* for section_name, section_data in extraction_data.items(), from the k-th on
extraction_rows(extraction_data, k) ==
    IF k > Len(extraction_data.keys) THEN <<>>
    ELSE LET section_name == extraction_data.keys[k]
             section_data == extraction_data.v[section_name]
         IN (IF section_data.t = "dict"
             THEN render_items(section_name, section_data, 1)
             ELSE <<>>)
            \o extraction_rows(extraction_data, k + 1)

\* 'Cerebellar Extraction Report', the default of data.get('title', ...)
default_title ==
    StrOf(<<"C", "e", "r", "e", "b", "e", "l", "l", "a", "r", " ",
            "E", "x", "t", "r", "a", "c", "t", "i", "o", "n", " ",
            "R", "e", "p", "o", "r", "t">>)

\* main.generate_html_report; the document is opened only for a non-empty
\* highlights value, and doc.close() is reached on the normal path only
generate_html_report(r) ==
    LET v == validate_pdf_base64(r) IN
    IF v.stop THEN v.out
    ELSE LET extraction_data == dict_get(v.data, "extraction_data", PyDict(<<>>, <<>>))
             highlights == dict_get(v.data, "highlights", PyList(<<>>))
             title == dict_get(v.data, "title", default_title)
             dpi == dict_get(v.data, "dpi", PyInt(150))
             padding == dict_get(v.data, "padding", PyInt(20))
             opened == truthy(highlights)
             calls == IF opened THEN <<"b64decode", "open", "close">>
                      ELSE <<"b64decode">>
             reported(screenshots) ==
                 IF extraction_data.t # "dict" THEN Error500("AttributeError", calls)
                 ELSE Outcome(
                         Response(200,
                             [success |-> TRUE,
                              html |-> [title |-> title, generated |-> r.clock,
                                        rows |-> extraction_rows(extraction_data, 1),
                                        heading |-> Len(screenshots),
                                        cards |-> AsSeq([k \in 1..Len(screenshots) |->
                                                    evidence_card(screenshots[k])])],
                              screenshots |-> Len(screenshots),
                              timestamp |-> r.clock]),
                         calls)
             captured(shots) ==
                 IF shots.raised THEN Error500(shots.error, <<"b64decode", "open">>)
                 ELSE reported(AsSeq([k \in 1..Len(shots.value) |->
                                         report_entry(shots.value[k])]))
    IN IF opened /\ ~v.pdf_bytes.pdf
       THEN Error500("FileDataError", <<"b64decode", "open">>)
       ELSE captured(IF opened
                     THEN iterate_highlights(highlights, v.pdf_bytes.pages,
                                             dpi, padding, 2)
                     ELSE Value(<<>>))

(***************************************************************************)
(* extract_tables_enhanced                                                 *)
(***************************************************************************)

\* [\.:]\s*(.+), the tail of every caption pattern
caption_tail == <<SetAtom({".", ":"}), Star(WsAtom), Plus(DotAtom)>>

\* caption_patterns of extract_tables_enhanced
table_caption_patterns == <<
    <<Bol>> \o Lit(<<"T", "a", "b", "l", "e">>) \o <<Star(WsAtom), Plus(DigitAtom)>>
        \o caption_tail \o <<Eol>>,
    <<Bol>> \o Lit(<<"T", "a", "b">>) \o <<Star(WsAtom), Plus(DigitAtom)>>
        \o caption_tail \o <<Eol>>,
    <<Bol>> \o Lit(<<"T", "A", "B", "L", "E">>) \o <<Star(WsAtom), Plus(DigitAtom)>>
        \o caption_tail \o <<Eol>> >>

RECURSIVE find_captions(_, _, _)
\* for line in lines: the stripped lines that match one of the patterns,
\* from the k-th line on
find_captions(lines, caption_patterns, k) ==
    IF k > Len(lines) THEN <<>>
    ELSE (IF \E n \in 1..Len(caption_patterns) :
                 re_match(caption_patterns[n], strip(lines[k]), TRUE)
          THEN <<strip(lines[k])>>
          ELSE <<>>)
         \o find_captions(lines, caption_patterns, k + 1)

\* ' '.join(str(cell).split()) if cell else ""
cleaned_cell_of(cell) ==
    IF falsy_text(cell) THEN <<>> ELSE join(<<" ">>, split_ws(cell))

\* cleaned_table
cleaned_table_of(table) ==
    AsSeq([i \in 1..Len(table) |->
              AsSeq([j \in 1..Len(table[i]) |-> cleaned_cell_of(table[i][j])])])

\* any(cell.strip() for cell in row)
any_cell(row) == \E j \in 1..Len(row) : strip(row[j]) # <<>>

RECURSIVE nonempty_rows(_, _)
\* the rows of cleaned_table with a non-empty cell, from the i-th on
nonempty_rows(cleaned_table, i) ==
    IF i > Len(cleaned_table) THEN <<>>
    ELSE (IF any_cell(cleaned_table[i]) THEN <<cleaned_table[i]>> ELSE <<>>)
         \o nonempty_rows(cleaned_table, i + 1)

\* the entry with row_count counting only the rows that were kept
enhanced_table_entry_kept_count(table, captions, page_num, j) ==
    LET cleaned_table == cleaned_table_of(table)
        kept == nonempty_rows(cleaned_table, 1)
        headers == IF kept # <<>> THEN Head(kept) ELSE <<>>
        data_rows == IF kept # <<>> THEN Tail(kept) ELSE <<>>
    IN [page |-> page_num + 1, table_index |-> j,
        caption |-> IF j < Len(captions) THEN captions[j + 1] ELSE <<>>,
        headers |-> headers, rows |-> data_rows, raw |-> cleaned_table,
        column_count |-> IF headers # <<>> THEN Len(headers) ELSE 0,
        row_count |-> Len(kept)]

\* the entry of table j (0-based) of page page_num (0-based)
enhanced_table_entry(table, captions, page_num, j) ==
    LET cleaned_table == cleaned_table_of(table)
        kept == nonempty_rows(cleaned_table, 1)
        \* "if not headers: headers = row": a first row of no cells is falsy
        \* too, but such a row has no non-empty cell
        headers == IF kept # <<>> THEN Head(kept) ELSE <<>>
        data_rows == IF kept # <<>> THEN Tail(kept) ELSE <<>>
    IN [page |-> page_num + 1, table_index |-> j,
        caption |-> IF j < Len(captions) THEN captions[j + 1] ELSE <<>>,
        headers |-> headers, rows |-> data_rows, raw |-> cleaned_table,
        column_count |-> IF headers # <<>> THEN Len(headers) ELSE 0,
        row_count |-> Len(cleaned_table)]

RECURSIVE enhanced_tables_of_page(_, _, _, _, _)
\* for j, table in enumerate(page_tables), from index j (0-based) on
enhanced_tables_of_page(tables_result, page_tables, captions, page_num, j) ==
    IF j >= Len(page_tables) THEN tables_result
    ELSE enhanced_tables_of_page(
            IF page_tables[j + 1] # <<>>
            THEN Append(tables_result,
                        enhanced_table_entry(page_tables[j + 1], captions, page_num, j))
            ELSE tables_result,
            page_tables, captions, page_num, j + 1)

\* the captions of a page of extract_tables_enhanced
table_captions(page, detect_captions) ==
    IF truthy(detect_captions)
    THEN find_captions(split(extract_text_or_empty(page), "\n"),
                       table_caption_patterns, 1)
    ELSE <<>>

\* page.extract_tables with the "lines" strategy and, when that finds no
\* table, with the "text" strategy
page_tables_of(page) == IF page.tables = <<>> THEN page.tables_text ELSE page.tables

RECURSIVE enhanced_tables_of_pages(_, _, _, _)
\* for page_num, page in enumerate(pdf.pages), from index page_num on
enhanced_tables_of_pages(tables_result, pages, detect_captions, page_num) ==
    IF page_num >= Len(pages) THEN Value(tables_result)
    ELSE IF pages[page_num + 1].broken THEN Raise("PDFSyntaxError")
    ELSE LET page == pages[page_num + 1] IN
         enhanced_tables_of_pages(
             enhanced_tables_of_page(tables_result, page_tables_of(page),
                                     table_captions(page, detect_captions),
                                     page_num, 0),
             pages, detect_captions, page_num + 1)

\* main.extract_tables_enhanced
extract_tables_enhanced(r) ==
    LET v == validate_pdf_base64(r) IN
    IF v.stop THEN v.out
    ELSE LET detect_captions == dict_get(v.data, "detect_captions", PyBool(TRUE))
             done == enhanced_tables_of_pages(<<>>, v.pdf_bytes.pages,
                                              detect_captions, 0)
             result == IF done.raised THEN done
                       ELSE Value([success |-> TRUE, tables |-> done.value,
                                   table_count |-> Len(done.value)])
         IN with_pdfplumber(v.pdf_bytes, result, <<"b64decode">>)

(***************************************************************************)
(* extract_figures_enhanced                                                *)
(***************************************************************************)

\* caption_patterns of extract_figures_enhanced
figure_caption_patterns == <<
    <<Bol>> \o Lit(<<"F", "i", "g", "u", "r", "e">>)
        \o <<Star(WsAtom), Plus(DigitAtom)>> \o caption_tail,
    <<Bol>> \o Lit(<<"F", "i", "g">>)
        \o <<Star(WsAtom), Opt(Ch(".")), Star(WsAtom), Plus(DigitAtom)>> \o caption_tail,
    <<Bol>> \o Lit(<<"F", "I", "G", "U", "R", "E">>)
        \o <<Star(WsAtom), Plus(DigitAtom)>> \o caption_tail >>

\* the PNG of an embedded image, as base64: named by the image
png_of_image(img) == [png |-> img.xref]

\* the body of the try block for one image: "skip" when the image is left
\* out (it is small, or reading or comparing it raises), or its entry
enhanced_figure(img, captions, page_num, img_idx, min_size) ==
    IF ~img.ok \/ ~is_int(min_size) THEN [skip |-> TRUE, entry |-> None]
    ELSE IF img.pixel_width < int_of(min_size) \/ img.pixel_height < int_of(min_size)
    THEN [skip |-> TRUE, entry |-> None]
    ELSE [skip |-> FALSE,
          entry |-> [page |-> page_num + 1, figure_index |-> img_idx,
                     caption |-> IF img_idx < Len(captions)
                                 THEN captions[img_idx + 1] ELSE <<>>,
                     image_base64 |-> png_of_image(img),
                     \* list(bbox) if bbox else None; <<>> is None
                     bbox |-> IF img.placed THEN img.bbox ELSE <<>>,
                     width |-> img.pixel_width, height |-> img.pixel_height,
                     format |-> img.ext]]

RECURSIVE enhanced_figures_of_page_stops(_, _, _, _, _, _)
\* enhanced_figures_of_page that leaves the page at the first image it omits
enhanced_figures_of_page_stops(figures_result, image_list, captions, page_num, img_idx, min_size) ==
    IF img_idx >= Len(image_list) THEN figures_result
    ELSE LET fig == enhanced_figure(image_list[img_idx + 1], captions, page_num,
                                    img_idx, min_size)
         IN IF fig.skip THEN figures_result
            ELSE enhanced_figures_of_page_stops(
                    Append(figures_result, fig.entry),
                    image_list, captions, page_num, img_idx + 1, min_size)

RECURSIVE enhanced_figures_of_page(_, _, _, _, _, _)
\* for img_idx, img in enumerate(image_list), from index img_idx on
enhanced_figures_of_page(figures_result, image_list, captions, page_num, img_idx, min_size) ==
    IF img_idx >= Len(image_list) THEN figures_result
    ELSE LET fig == enhanced_figure(image_list[img_idx + 1], captions, page_num,
                                    img_idx, min_size)
         IN enhanced_figures_of_page(
                IF fig.skip THEN figures_result ELSE Append(figures_result, fig.entry),
                image_list, captions, page_num, img_idx + 1, min_size)

\* page.get_text(): the text of the page, never None
get_text(page) == extract_text_or_empty(page)

RECURSIVE enhanced_figures_of_pages(_, _, _, _)
\* for page_num in range(len(doc)), from page_num on
enhanced_figures_of_pages(figures_result, pages, min_size, page_num) ==
    IF page_num >= Len(pages) THEN Value(figures_result)
    ELSE IF pages[page_num + 1].broken THEN Raise("RuntimeError")
    ELSE LET page == pages[page_num + 1]
             captions == find_captions(split(get_text(page), "\n"),
                                       figure_caption_patterns, 1)
         IN enhanced_figures_of_pages(
                enhanced_figures_of_page(figures_result, page.images, captions,
                                         page_num, 0, min_size),
                pages, min_size, page_num + 1)

\* main.extract_figures_enhanced; doc.close() is reached on the normal path only
extract_figures_enhanced(r) ==
    LET v == validate_pdf_base64(r) IN
    IF v.stop THEN v.out
    ELSE IF ~v.pdf_bytes.pdf THEN Error500("FileDataError", <<"b64decode", "open">>)
    ELSE LET min_size == dict_get(v.data, "min_size", PyInt(50))
             done == enhanced_figures_of_pages(<<>>, v.pdf_bytes.pages, min_size, 0)
         IN IF done.raised THEN Error500(done.error, <<"b64decode", "open">>)
            ELSE Outcome(Response(200, [success |-> TRUE, figures |-> done.value,
                                        figure_count |-> Len(done.value)]),
                         <<"b64decode", "open", "close">>)

(***************************************************************************)
(* local_server.py: PDFHandler                                             *)
(***************************************************************************)

\* PDFHandler.detect_sections(pdf_bytes): the result dict, or an exception
local_detect_sections(pdf_bytes) ==
    IF ~pdf_bytes.pdf THEN Raise("PDFSyntaxError")
    ELSE LET found == sections_of(pdf_bytes.pages) IN
    IF found.raised THEN found
    ELSE Value([success |-> TRUE, sections |-> found.value,
                section_count |-> Len(found.value)])

\* PDFHandler.extract_text_with_positions(pdf_bytes): page_num = 1 before the loop
local_extract_text_with_positions(pdf_bytes) ==
    IF ~pdf_bytes.pdf THEN Raise("PDFSyntaxError")
    ELSE LET done == words_of_pages(PositionsStart, pdf_bytes.pages, 1)
             page_num == page_num_after(pdf_bytes.pages, Value(1))
    IN IF done.raised THEN done
       ELSE Value([success |-> TRUE,
                   text |-> strip(done.value.full_text),
                   positions |-> done.value.positions,
                   page_count |-> page_num.value])

\* PDFHandler.extract_tables(pdf_bytes)
local_extract_tables(pdf_bytes) ==
    IF ~pdf_bytes.pdf THEN Raise("PDFSyntaxError") ELSE tables_result_of(pdf_bytes.pages)

RECURSIVE local_figures_of_page(_, _, _, _)
\* for img_idx, image in enumerate(page.images), from the k-th image on: an
\* image whose crop or rendering raises is skipped
local_figures_of_page(figures, images, i, k) ==
    IF k > Len(images) THEN figures
    ELSE local_figures_of_page(
            IF images[k].ok THEN Append(figures, figure_entry(images[k], i))
            ELSE figures,
            images, i, k + 1)

RECURSIVE local_figures_of_pages(_, _, _)
\* for i, page in enumerate(pdf.pages), from index i (0-based) on
local_figures_of_pages(figures, pages, i) ==
    IF i >= Len(pages) THEN Value(figures)
    ELSE IF pages[i + 1].broken THEN Raise("PDFSyntaxError")
    ELSE local_figures_of_pages(
            local_figures_of_page(figures, pages[i + 1].images, i, 1), pages, i + 1)

\* PDFHandler.extract_figures(pdf_bytes)
local_extract_figures(pdf_bytes) ==
    IF ~pdf_bytes.pdf THEN Raise("PDFSyntaxError")
    ELSE LET done == local_figures_of_pages(<<>>, pdf_bytes.pages, 0) IN
    IF done.raised THEN done
    ELSE Value([success |-> TRUE, figures |-> done.value,
                figure_count |-> Len(done.value)])

\* PDFHandler.extract_text_with_layout(pdf_bytes)
local_extract_text_with_layout(pdf_bytes) ==
    IF ~pdf_bytes.pdf THEN Raise("PDFSyntaxError") ELSE layout_result(pdf_bytes.pages)

\* the dispatch on self.path: the endpoint's result, or NoEndpoint
NoEndpoint == Raise("404")
dispatch(path, pdf_bytes) ==
    CASE path = "extract_tables" -> local_extract_tables(pdf_bytes)
      [] path = "extract_figures" -> local_extract_figures(pdf_bytes)
      [] path = "extract_text_with_layout" -> local_extract_text_with_layout(pdf_bytes)
      [] path = "detect_sections" -> local_detect_sections(pdf_bytes)
      [] path = "extract_text_with_positions" ->
            local_extract_text_with_positions(pdf_bytes)
      [] OTHER -> NoEndpoint

\* self._set_headers(status); self.wfile.write(json.dumps(body).encode())
Send(status, body, calls) ==
    Outcome(Response(status, body), calls \o <<"set_headers", "write">>)

\* data.get('pdf_base64') on the parsed body
get_pdf_base64(data) ==
    IF data.t # "dict" THEN Raise("AttributeError")
    ELSE Value(dict_get(data, "pdf_base64", None))

\* the except clause of do_POST: _set_headers(500) and the write of the
\* error; a write to a client that is gone raises, and that exception leaves
\* do_POST without a response
send_error(r, e, calls) ==
    CASE r.connection = "open" -> Send(500, [error |-> e], calls)
      [] r.connection = "lost before headers" ->
            Outcome(None, calls \o <<"set_headers">>)
      [] r.connection = "lost before body" ->
            Outcome(None, calls \o <<"set_headers", "write">>)

\* _set_headers(status) and the write of the body inside the try block: a
\* write to a client that is gone raises, inside _set_headers (end_headers
\* flushes the header block) or in wfile.write, and the except clause runs
send_in_try(r, status, body, calls) ==
    LET lost == [r EXCEPT !.connection = "lost before headers"] IN
    CASE r.connection = "open" -> Send(status, body, calls)
      [] r.connection = "lost before headers" ->
            send_error(lost, "BrokenPipeError", calls \o <<"set_headers">>)
      [] r.connection = "lost before body" ->
            send_error(lost, "BrokenPipeError", calls \o <<"set_headers", "write">>)

\* the digit of a character of Digits
DigitOf(c) == ((CHOOSE i \in 1..Len(DecimalDigits) : DecimalDigits[i] = c) - 1) % 10

RECURSIVE int_digits(_, _)
\* the number that digits and single underscores between them write, after
\* the value n of the digits before them
int_digits(s, n) ==
    IF s = <<>> THEN n
    ELSE IF Head(s) = "_" THEN int_digits(Tail(s), n)
    ELSE int_digits(Tail(s), 10 * n + DigitOf(Head(s)))

\* the white space int() allows around a number: the white space of
\* str.strip() except U+001C to U+001F
IntSpace == Whitespace \ {"", "", "", ""}

RECURSIVE int_strip(_)
\* a str without the white space int() allows around a number
int_strip(s) ==
    IF s # <<>> /\ Head(s) \in IntSpace THEN int_strip(Tail(s))
    ELSE IF s # <<>> /\ s[Len(s)] \in IntSpace THEN int_strip(SubSeq(s, 1, Len(s) - 1))
    ELSE s

\* int(x) for an int or a str: white space around, a sign, digits with
\* single underscores between them; anything else raises ValueError
int_of_str(x) ==
    IF x.t = "int" THEN Value(x.v)
    ELSE LET t == int_strip(x.v)
             signed == t # <<>> /\ Head(t) \in {"+", "-"}
             d == IF signed THEN Tail(t) ELSE t
         IN IF /\ d # <<>>
               /\ \A i \in 1..Len(d) : d[i] \in Digits \cup {"_"}
               /\ d[1] # "_" /\ d[Len(d)] # "_"
               /\ \A i \in 1..(Len(d) - 1) : ~(d[i] = "_" /\ d[i + 1] = "_")
            THEN Value(IF signed /\ Head(t) = "-" THEN -int_digits(d, 0)
                       ELSE int_digits(d, 0))
            ELSE Raise("ValueError")

\* self.rfile.read(n) does not return yet: it waits for n bytes, or for all
\* bytes when n is -1, until the client has shut its side of the connection
read_blocks(rf, n) == ~rf.eof /\ (n = -1 \/ n > Len(rf.data))

\* what self.rfile.read(n) returns: the first n bytes of the connection, all
\* of them when n is -1 or when there are fewer; any other negative n raises
\* ValueError
rfile_read(rf, n) ==
    IF n < -1 THEN Raise("ValueError")
    ELSE IF n = -1 \/ n > Len(rf.data) THEN Value(rf.data)
    ELSE Value(SubSeq(rf.data, 1, n))

\* json.loads(post_data.decode('utf-8')): the bytes parse when they are the
\* whole text of one JSON document, and when they are the text of a positive
\* integer written several times, which is the text of the integer with all
\* those digits ('55' is 55; '00' is no number).  Nothing, a text cut short,
\* any other text with more after it, and a text that is no JSON raise
\* JSONDecodeError.
json_loads(post_data) ==
    IF /\ post_data # <<>>
       /\ Len(post_data) % BodyBytes = 0
       /\ \A i \in 1..Len(post_data) :
             post_data[i] = Byte(post_data[1].of, ((i - 1) % BodyBytes) + 1)
       /\ ~post_data[1].of.raised
    THEN LET times(text, m) ==
                 AsSeq([i \in 1..(m * Len(text)) |-> text[((i - 1) % Len(text)) + 1]])
         IN IF Len(post_data) = BodyBytes THEN post_data[1].of
            ELSE IF post_data[1].of.value.t = "int" /\ post_data[1].of.value.v > 0
            THEN Value(PyInt(int_digits(times(str_int(post_data[1].of.value.v),
                                              Len(post_data) \div BodyBytes), 0)))
            ELSE Raise("JSONDecodeError")
    ELSE Raise("JSONDecodeError")

\* PDFHandler.do_OPTIONS: _set_headers() and no body
do_OPTIONS(r) ==
    IF r.connection = "lost before headers" THEN Outcome(None, <<"set_headers">>)
    ELSE Outcome(Response(200, None), <<"set_headers">>)

\* int(self.headers.get('Content-Length', 0))
content_length_of(r) ==
    int_of_str(IF r.content_length = None THEN PyInt(0) ELSE r.content_length)

\* do_POST waits in self.rfile.read(content_length)
post_blocks(r, rf) ==
    LET content_length == content_length_of(r) IN
    ~content_length.raised /\ read_blocks(rf, content_length.value)

\* the try block of do_POST and its except clause, for the bytes read
try_POST(r, post_data) ==
    LET parsed == json_loads(post_data) IN
    IF parsed.raised THEN send_error(r, parsed.error, <<>>)
    ELSE LET got == get_pdf_base64(parsed.value) IN
    IF got.raised THEN send_error(r, got.error, <<>>)
    ELSE IF ~truthy(got.value)
    THEN send_in_try(r, 400, [error |-> "pdf_base64 required"], <<>>)
    ELSE LET dec == b64decode(got.value) IN
    IF dec.raised THEN send_error(r, dec.error, <<"b64decode">>)
    ELSE LET result == dispatch(r.fn, dec.value) IN
    IF result = NoEndpoint
    THEN send_in_try(r, 404, [error |-> "Unknown endpoint: /" \o r.fn], <<"b64decode">>)
    ELSE IF ~dec.value.pdf
    THEN send_error(r, result.error, <<"b64decode", "open">>)
    ELSE IF result.raised
    THEN send_error(r, result.error, <<"b64decode", "open", "close">>)
    ELSE send_in_try(r, 200, result.value, <<"b64decode", "open", "close">>)

\* PDFHandler.do_POST on connection rf: what is sent, and the connection
\* with the bytes read taken from it.  The Content-Length header and the
\* body are read before the try block, so an exception of int() or of read()
\* leaves do_POST and nothing is sent.
do_POST(r, rf) ==
    LET content_length == content_length_of(r)
        post_data == rfile_read(rf, content_length.value)
        rest == SubSeq(rf.data, Len(post_data.value) + 1, Len(rf.data))
        sent(out) == [resp |-> out.resp, log |-> out.log,
                      rfile |-> [rf EXCEPT !.data = rest]]
    IN IF content_length.raised \/ post_data.raised
       THEN [resp |-> None, log |-> <<>>, rfile |-> rf]
       ELSE sent(try_POST(r, post_data.value))

(***************************************************************************)
(* The inputs: pages as the PDF libraries report them                      *)
(***************************************************************************)

\* a page: its text (extract_text / get_text), its words (extract_words), its
\* tables under the "lines" and under the "text" strategy, its images, its
\* size in points, and whether reading it raises
Page(text, words, tables, tables_text, images) ==
    [broken |-> FALSE, text |-> text, words |-> words, tables |-> tables,
     tables_text |-> tables_text, images |-> images, width |-> 612, height |-> 792]
BrokenPage == [Page(NoText, <<>>, <<>>, <<>>, <<>>) EXCEPT !.broken = TRUE]
TextPage(lines) == Page(join(<<"\n">>, lines), <<>>, <<>>, <<>>, <<>>)
EmptyPage == Page(NoText, <<>>, <<>>, <<>>, <<>>)
WordsPage(words) == Page(NoText, words, <<>>, <<>>, <<>>)

\* the base64 text of a PDF ("JVBERi0" encodes "%PDF-")
B64Pdf(pages) == PyStr(<<"J", "V", "B", "E", "R", "i", "0">>, PdfBytes(pages))

\* the Content-Type of a JSON body and of two uploads
ApplicationJson ==
    <<"a", "p", "p", "l", "i", "c", "a", "t", "i", "o", "n", "/", "j", "s",
      "o", "n">>
MultipartFormData ==
    <<"m", "u", "l", "t", "i", "p", "a", "r", "t", "/", "f", "o", "r", "m",
      "-", "d", "a", "t", "a", ";", " ", "b", "o", "u", "n", "d", "a", "r",
      "y", "=", "x">>
MultipartRelated ==
    <<"m", "u", "l", "t", "i", "p", "a", "r", "t", "/", "r", "e", "l", "a",
      "t", "e", "d">>

\* a JSON request { "pdf_base64": <the document> } to function fn of the
\* server ("cloud": main.py, "local": local_server.py)
PdfRequest(server, fn, pages) ==
    [server |-> server, fn |-> fn, content_type |-> ApplicationJson, file |-> None,
     json |-> Value(PyDict(<<"pdf_base64">>, [pdf_base64 |-> B64Pdf(pages)])),
     clock |-> 0, connection |-> "open", method |-> "POST",
     sent |-> BodyBytes, content_length |-> StrOf(str_int(BodyBytes))]

\* ---- bounds of the documents
MaxPages == 2
MaxLines == 2
MaxWords == 2

\* all sequences over S of length 1..n
SeqsUpTo(S, n) == UNION {[1..k -> S] : k \in 1..n}

\* the ways to lay m items out on p pages: the page of each item, in order
Layouts(m, p) ==
    {pg \in [1..m -> 1..p] : \A i \in 1..(m - 1) : pg[i] <= pg[i + 1]}

\* the items that layout pg puts on page i
ItemsOnPage(items, pg, i) ==
    LET on == {k \in 1..Len(items) : pg[k] = i}
        lo == CHOOSE k \in on : \A j \in on : k <= j
    IN IF on = {} THEN <<>> ELSE SubSeq(items, lo, lo + Cardinality(on) - 1)

\* the document of the given number of pages that layout pg makes of items
Laid(items, pg, pages) == AsSeq([i \in 1..pages |-> ItemsOnPage(items, pg, i)])

\* the lines of the section documents
SectionLines == {
    <<>>,
    <<"A", "b", "s", "t", "r", "a", "c", "t">>,
    <<" ", "R", "E", "S", "U", "L", "T", "S", " ">>,
    <<"r", "e", "s", "u", "l", "t", "s", " ", "o", "f">>,
    <<"t", "h", "e", " ", "m", "e", "t", "h", "o", "d", "s">>,
    <<"B", "a", "c", "k", "g", "r", "o", "u", "n", "d">>,
    <<"s", "t", "u", "d", "y", " ", "d", "e", "s", "i", "g", "n">>,
    <<"P", "a", "t", "i", "e", "n", "t", "s", " ", "a", "n", "d", " ",
      "M", "e", "t", "h", "o", "d", "s">>,
    <<"d", "i", "s", "c", "u", "s", "s", "i", "o", "n">>,
    <<"C", "o", "n", "c", "l", "u", "s", "i", "o", "n", "s">>,
    <<"b", "i", "b", "l", "i", "o", "g", "r", "a", "p", "h", "y">>,
    <<"T", "a", "b", "l", "e", " ", "1">>,
    <<"T", "a", "b", "l", "e", " ", "U+0663">>,
    <<"t", "a", "b", "l", "e", "2", ":", " ", "x">>,
    <<"t", "a", "b", "l", "e", " ", "x">>,
    <<"F", "i", "g", ".", " ", "3">>,
    <<"f", "U+0131", "g", "u", "r", "e", "4", "a">>,
    <<"f", "i", "g", "s", " ", "5">>,
    <<"r", "e", "U+017F", "u", "l", "t", "s">>
}

\* a page of the section documents: no line is a page whose text is None
SectionPage(lines) == IF lines = <<>> THEN EmptyPage ELSE TextPage(lines)

SectionDoc(d) == AsSeq([i \in 1..Len(d) |-> SectionPage(d[i])])

\* the words of the position documents
Word(text, x0, top, x1, bottom) ==
    [text |-> text, x0 |-> x0, top |-> top, x1 |-> x1, bottom |-> bottom]
PositionWords == {
    Word(<<"a", "b">>, 10, 20, 22, 30),
    Word(<<"c">>, 24, 20, 30, 30),
    Word(<<"1", ".", "5", "%">>, 10, 40, 34, 50)
}

PositionDoc(d) == AsSeq([i \in 1..Len(d) |-> WordsPage(d[i])])

\* an image of a page: its number in the file, its box on the page (x0, top,
\* x1, bottom) with the width and height of the box, its size in pixels, and
\* whether it can be read and rendered
Image(xref, bbox, pixel_width, pixel_height, ok) ==
    [xref |-> xref, bbox |-> bbox,
     width |-> bbox[3] - bbox[1], height |-> bbox[4] - bbox[2],
     pixel_width |-> pixel_width, pixel_height |-> pixel_height,
     ok |-> ok, placed |-> TRUE, ext |-> "png"]

\* ---- the requests of the HTTP level

\* a page with text, a word, a table and two images
RichPage ==
    Page(join(<<"\n">>, << <<"R", "e", "s", "u", "l", "t", "s">>,
                           <<"T", "a", "b", "l", "e", " ", "1", ".", " ", "a">>,
                           <<"F", "i", "g", ".", " ", "2", ":", " ", "b">> >>),
         << Word(<<"a", "b">>, 10, 20, 22, 30) >>,
         << << << <<"h">>, <<" ", "x", " ", " ", "y">> >>, << NoText, <<"1">> >> >> >>,
         <<>>,
         << Image(7, <<10, 10, 26, 26>>, 16, 16, TRUE),
            Image(8, <<50, 100, 250, 300>>, 400, 400, TRUE),
            Image(9, <<0, 0, 100, 100>>, 200, 200, FALSE) >>)

\* the documents of the HTTP level
HttpDocs == { <<>>, <<BrokenPage>>, <<RichPage>>, <<EmptyPage, RichPage>> }

\* the values of the key pdf_base64: base64 of a PDF, base64 of other bytes,
\* the empty string, text that is no base64, a number, null
PdfBase64Values ==
    {B64Pdf(pages) : pages \in HttpDocs}
    \cup { PyStr(<<"a", "G", "k", "=">>, NotPdf), PyStr(<<>>, NotPdf),
           StrOf(<<"a", "b", "c">>), StrOf(<<"é">>), PyInt(7), None }

\* a highlight with every key
Highlight(page, x0, y0, x1, y1) ==
    PyDict(<<"page", "text", "x0", "y0", "x1", "y1", "label">>,
           [page |-> PyInt(page), text |-> StrOf(<<"4", "2", "%">>),
            x0 |-> PyInt(x0), y0 |-> PyInt(y0), x1 |-> PyInt(x1), y1 |-> PyInt(y1),
            label |-> StrOf(<<"m", "R", "S">>)])

\* extraction_data with a nested field, a value without source and a scalar
ExtractionData ==
    PyDict(<<"outcomes", "note">>,
           [outcomes |->
                PyDict(<<"mortality", "gos", "n">>,
                       [mortality |->
                            PyDict(<<"value", "sourceText">>,
                                   [value |-> StrOf(<<"1", "2", "%">>),
                                    sourceText |-> StrOf(<<"d", "i", "e", "d">>)]),
                        gos |-> PyDict(<<"good">>,
                                       [good |-> PyDict(<<"value">>,
                                                        [value |-> PyInt(5)])]),
                        n |-> PyInt(40)]),
            note |-> StrOf(<<"x">>)])

\* the other keys of a body
HttpOptions == {
    PyDict(<<>>, <<>>),
    PyDict(<<"highlights">>, [highlights |-> PyList(<<>>)]),
    PyDict(<<"highlights">>, [highlights |-> PyInt(3)]),
    PyDict(<<"highlights">>, [highlights |-> PyList(<<PyInt(1)>>)]),
    PyDict(<<"highlights">>,
           [highlights |-> PyList(<<Highlight(1, 100, 100, 300, 120)>>)]),
    PyDict(<<"highlights">>,
           [highlights |-> PyList(<<Highlight(3, 100, 100, 300, 120),
                                    Highlight(1, 100, 100, 300, 121),
                                    PyDict(<<"page">>, [page |-> PyInt(2)])>>)]),
    PyDict(<<"highlights">>,
           [highlights |-> PyList(<<Highlight(1, 300, 100, 100, 120)>>)]),
    PyDict(<<"highlights", "dpi", "padding">>,
           [highlights |-> PyList(<<Highlight(1, 100, 100, 300, 120)>>),
            dpi |-> PyInt(100), padding |-> PyInt(0)]),
    PyDict(<<"highlights", "dpi">>,
           [highlights |-> PyList(<<Highlight(1, 100, 100, 300, 120)>>),
            dpi |-> StrOf(<<"h", "i">>)]),
    PyDict(<<"extraction_data", "title">>,
           [extraction_data |-> ExtractionData, title |-> StrOf(<<"T">>)]),
    PyDict(<<"extraction_data">>, [extraction_data |-> PyList(<<>>)]),
    PyDict(<<"detect_captions">>, [detect_captions |-> PyBool(FALSE)]),
    PyDict(<<"min_size">>, [min_size |-> PyInt(500)]),
    PyDict(<<"min_size">>, [min_size |-> StrOf(<<"5", "0">>)])
}

\* the JSON object with the key pdf_base64 and the keys of options
PdfBody(pdf_base64, options) ==
    PyDict(<<"pdf_base64">> \o options.keys,
           IF options.keys = <<>> THEN [pdf_base64 |-> pdf_base64]
           ELSE ("pdf_base64" :> pdf_base64) @@ options.v)

\* what get_json() yields for the bodies without the key: an exception, no
\* body, empty and non-empty values of every JSON type
OtherJson == {
    Raise("BadRequest"), Value(None),
    Value(PyDict(<<>>, <<>>)), Value(PyList(<<>>)), Value(StrOf(<<>>)),
    Value(PyInt(0)), Value(PyBool(FALSE)),
    Value(PyDict(<<"title">>, [title |-> StrOf(<<"T">>)])),
    Value(PyDict(<<"highlights">>,
                 [highlights |-> PyList(<<Highlight(1, 100, 100, 300, 120)>>)])),
    Value(PyList(<<PyInt(1)>>)), Value(PyList(<<StrOf(K_pdf_base64)>>)),
    Value(StrOf(<<"h", "i">>)), Value(StrOf(K_pdf_base64)),
    Value(PyInt(5)), Value(PyBool(TRUE))
}

HttpJson ==
    OtherJson
    \cup {Value(PdfBody(p, o)) : p \in PdfBase64Values, o \in HttpOptions}

\* the nine functions of main.py and the paths of the local server (the
\* last one is no endpoint of it)
Functions == {"extract_text_with_layout", "extract_tables", "extract_text_with_positions",
              "detect_sections", "extract_figures", "capture_highlights",
              "generate_html_report", "extract_tables_enhanced",
              "extract_figures_enhanced"}
LocalPaths == {"extract_tables", "extract_figures", "extract_text_with_layout",
               "detect_sections", "extract_text_with_positions", "capture_highlights"}

\* a JSON request
JsonRequest(server, fn, json) ==
    [server |-> server, fn |-> fn, content_type |-> ApplicationJson, file |-> None,
     json |-> json, clock |-> 0, connection |-> "open", method |-> "POST",
     sent |-> BodyBytes, content_length |-> StrOf(str_int(BodyBytes))]

\* a multipart request: the uploaded file (None when there is none) and what
\* get_json() yields for it
MultipartRequest(server, fn, file, json) ==
    [server |-> server, fn |-> fn, content_type |-> MultipartFormData,
     file |-> file, json |-> json, clock |-> 0, connection |-> "open",
     method |-> "POST", sent |-> BodyBytes,
     content_length |-> StrOf(str_int(BodyBytes))]

\* the uploaded files
Uploads == {None, NotPdf, PdfBytes(<<RichPage>>), PdfBytes(<<BrokenPage>>)}

\* ---- the documents with captions, tables and images

MaxTables == 2
MaxImages == 2

\* the lines of the caption documents
CaptionLines == {
    <<"T", "a", "b", "l", "e", " ", "1", ".", " ", "a">>,
    <<" ", "t", "a", "b", "2", ":", "b", " ">>,
    <<"T", "a", "b", "l", "e", " ", "3">>,
    <<"T", "a", "b", "l", "e", " ", "U+0661", ":", " ", "U+0100">>,
    <<"F", "i", "g", "u", "r", "e", " ", "1", ".", " ", "c">>,
    <<"f", "i", "g", ".", " ", "2", ":", "d">>,
    <<"F", "i", "g", "u", "r", "e", "s", " ", "3", ".", " ", "e">>
}

\* the tables of the caption documents: an empty table, a table with a blank
\* row and messy cells, and a table of one row
CaptionTables == {
    <<>>,
    << << <<"h">>, <<" ", "x", " ", " ", "y">> >>, << NoText, <<" ">> >>,
       << NoText, <<"1">> >> >>,
    << << <<"k">> >> >>
}

\* the images of the caption documents: a logo, two figures, and an image
\* that cannot be read
CaptionImages == {
    Image(7, <<10, 10, 26, 26>>, 16, 16, TRUE),
    Image(8, <<50, 100, 250, 300>>, 400, 400, TRUE),
    Image(9, <<50, 400, 250, 500>>, 400, 200, TRUE),
    Image(10, <<0, 0, 100, 100>>, 200, 200, FALSE)
}

\* the tables of the table documents: those, a table whose first row is
\* blank, and a table of one row without cells
TableChoices ==
    CaptionTables
    \cup { << << NoText, <<>> >>, << <<"a">>, <<"b", "\n", "c">> >> >>,
            << <<>> >> }

\* a page with these lines of text, these tables (found by the "text"
\* strategy when by_text, by the "lines" strategy otherwise) and these images
CaptionPage(lines, tables, by_text, images) ==
    Page(IF lines = <<>> THEN NoText ELSE join(<<"\n">>, lines), <<>>,
         IF by_text THEN <<>> ELSE tables, IF by_text THEN tables ELSE <<>>, images)

\* the document that lays lines, tables and images out on pages
CaptionDoc(lines, tables, by_text, images) ==
    AsSeq([i \in 1..Len(lines) |->
              CaptionPage(lines[i], tables[i], by_text, images[i])])

(***************************************************************************)
(* The server: a request arrives, its function answers it                  *)
(***************************************************************************)

Init ==
    /\ phase = "idle"
    /\ req = None
    /\ resp = None
    /\ log = <<>>
    /\ first = None
    /\ rfile = None

Servers == {"cloud", "local"}

\* request r arrives; the local server has accepted the connection and read
\* the request line and the headers, the body waits in the connection after
\* whatever is unread in it
Receive(r) ==
    /\ phase = "idle"
    /\ req' = r
    /\ phase' = "received"
    /\ rfile' = IF r.server # "local" THEN rfile
                ELSE Connection((IF rfile = None THEN <<>> ELSE rfile.data) \o Body(r),
                                FALSE)
    /\ UNCHANGED <<resp, log, first>>

\* a detect_sections request arrives: a document of at most MaxPages pages
\* and MaxLines lines of SectionLines
ReceiveSections ==
    /\ phase = "idle"
    /\ \E server \in Servers, pages \in 0..MaxPages, m \in 0..MaxLines :
        \E lines \in [1..m -> SectionLines], pg \in Layouts(m, pages) :
            Receive(PdfRequest(server, "detect_sections",
                               SectionDoc(Laid(lines, pg, pages))))

\* an extract_text_with_positions request arrives: a document of at most
\* MaxPages + 1 pages, so that a page without words can lie between two pages
\* with words, and MaxWords words of PositionWords
ReceivePositions ==
    /\ phase = "idle"
    /\ \E server \in Servers, pages \in 0..(MaxPages + 1), m \in 0..MaxWords :
        \E words \in [1..m -> PositionWords], pg \in Layouts(m, pages) :
            Receive(PdfRequest(server, "extract_text_with_positions",
                               PositionDoc(Laid(words, pg, pages))))

\* a request of the HTTP level arrives: any function of main.py or any path
\* of the local server, with a JSON body or as a multipart upload
ReceiveHttp ==
    /\ phase = "idle"
    /\ \/ \E fn \in Functions, json \in HttpJson :
              Receive(JsonRequest("cloud", fn, json))
       \/ \E fn \in Functions, file \in Uploads,
                json \in {Value(None), Raise("UnsupportedMediaType")},
                content_type \in {MultipartFormData, MultipartRelated} :
              Receive([MultipartRequest("cloud", fn, file, json)
                          EXCEPT !.content_type = content_type])
       \/ \E path \in LocalPaths, json \in HttpJson :
              Receive(JsonRequest("local", path, json))

\* an extract_tables_enhanced request arrives: a document of at most MaxPages
\* pages, MaxLines lines of CaptionLines and MaxTables tables of
\* CaptionTables, with or without detect_captions
ReceiveTablesEnhanced ==
    /\ phase = "idle"
    /\ \E pages \in 1..MaxPages, m \in 0..MaxLines, n \in 0..MaxTables :
        \E lines \in [1..m -> CaptionLines], lpg \in Layouts(m, pages),
           tables \in [1..n -> CaptionTables], tpg \in Layouts(n, pages),
           by_text \in BOOLEAN,
           options \in {PyDict(<<>>, <<>>),
                        PyDict(<<"detect_captions">>,
                               [detect_captions |-> PyBool(FALSE)])} :
            Receive(JsonRequest("cloud", "extract_tables_enhanced",
                        Value(PdfBody(
                            B64Pdf(CaptionDoc(Laid(lines, lpg, pages),
                                              Laid(tables, tpg, pages), by_text,
                                              [i \in 1..pages |-> <<>>])),
                            options))))

\* an extract_figures_enhanced request arrives: a document of at most
\* MaxPages pages, MaxLines lines of CaptionLines and MaxImages images of
\* CaptionImages, with or without min_size
ReceiveFiguresEnhanced ==
    /\ phase = "idle"
    /\ \E pages \in 1..MaxPages, m \in 0..MaxLines, n \in 0..MaxImages :
        \E lines \in [1..m -> CaptionLines], lpg \in Layouts(m, pages),
           images \in [1..n -> CaptionImages], ipg \in Layouts(n, pages),
           options \in {PyDict(<<>>, <<>>),
                        PyDict(<<"min_size">>, [min_size |-> PyInt(300)])} :
            Receive(JsonRequest("cloud", "extract_figures_enhanced",
                        Value(PdfBody(
                            B64Pdf(CaptionDoc(Laid(lines, lpg, pages),
                                              [i \in 1..pages |-> <<>>], FALSE,
                                              Laid(images, ipg, pages))),
                            options))))

\* an extract_tables or extract_tables_enhanced request arrives: a document
\* of at most MaxPages pages and MaxTables tables of TableChoices
ReceiveTables ==
    /\ phase = "idle"
    /\ \E pages \in 0..MaxPages, n \in 0..MaxTables :
        \E tables \in [1..n -> TableChoices], tpg \in Layouts(n, pages),
           by_text \in BOOLEAN,
           target \in {<<"cloud", "extract_tables">>, <<"local", "extract_tables">>,
                       <<"cloud", "extract_tables_enhanced">>} :
            Receive(JsonRequest(target[1], target[2],
                        Value(PdfBody(
                            B64Pdf(CaptionDoc(Laid(<<>>, <<>>, pages),
                                              Laid(tables, tpg, pages), by_text,
                                              [i \in 1..pages |-> <<>>])),
                            PyDict(<<>>, <<>>)))))

\* the function has returned its response
Respond(out) ==
    /\ resp' = out.resp
    /\ log' = out.log
    /\ phase' = "responded"
    /\ UNCHANGED <<req, first, rfile>>

\* ---- the requests of a sequence of requests

\* the bodies of the requests of a sequence
SequenceJson == {
    Value(None),
    Value(PdfBody(StrOf(<<"a", "b", "c">>), PyDict(<<>>, <<>>))),
    Value(PdfBody(B64Pdf(<<>>), PyDict(<<>>, <<>>))),
    Value(PdfBody(B64Pdf(<<RichPage>>),
                  PyDict(<<"highlights">>,
                         [highlights |->
                              PyList(<<Highlight(1, 100, 100, 300, 120)>>)])))
}

\* the times at which a request is served
Clocks == {0, 1}

\* a request of a sequence of requests arrives, at some time; a client of
\* the local server sends the text of its body once or twice
ReceiveAny ==
    /\ phase = "idle"
    /\ \E json \in SequenceJson, clock \in Clocks :
          \/ \E fn \in Functions :
                Receive([JsonRequest("cloud", fn, json) EXCEPT !.clock = clock])
          \/ \E path \in LocalPaths, sent \in {BodyBytes, 2 * BodyBytes} :
                Receive([JsonRequest("local", path, json)
                            EXCEPT !.clock = clock, !.sent = sent])

\* an observer notes one request of the sequence and the response to it
Observe ==
    /\ phase = "responded"
    /\ first = None
    /\ first' = [req |-> req, resp |-> resp]
    /\ UNCHANGED <<phase, req, resp, log, rfile>>

\* the request is over and the connection stays open for the next one, as
\* it would with protocol_version = 'HTTP/1.1'
FinishKeepAlive ==
    /\ phase = "responded"
    /\ phase' = "idle"
    /\ req' = None
    /\ resp' = None
    /\ log' = <<>>
    /\ UNCHANGED <<first, rfile>>

\* the request is over: the handler has returned, and the local server,
\* which speaks HTTP/1.0 (PDFHandler sets no protocol_version), closes the
\* connection with whatever is unread in it
Finish ==
    /\ phase = "responded"
    /\ phase' = "idle"
    /\ req' = None
    /\ resp' = None
    /\ log' = <<>>
    /\ rfile' = None
    /\ UNCHANGED first

\* main.detect_sections answers
DetectSections ==
    /\ phase = "received"
    /\ req.server = "cloud"
    /\ req.fn = "detect_sections"
    /\ Respond(detect_sections(req))

\* main.extract_text_with_positions answers
ExtractTextWithPositions ==
    /\ phase = "received"
    /\ req.server = "cloud"
    /\ req.fn = "extract_text_with_positions"
    /\ Respond(extract_text_with_positions(req))

\* main.extract_text_with_layout answers
ExtractTextWithLayout ==
    /\ phase = "received"
    /\ req.server = "cloud"
    /\ req.fn = "extract_text_with_layout"
    /\ Respond(extract_text_with_layout(req))

\* main.extract_tables answers
ExtractTables ==
    /\ phase = "received"
    /\ req.server = "cloud"
    /\ req.fn = "extract_tables"
    /\ Respond(extract_tables(req))

\* main.extract_figures answers
ExtractFigures ==
    /\ phase = "received"
    /\ req.server = "cloud"
    /\ req.fn = "extract_figures"
    /\ Respond(extract_figures(req))

\* main.capture_highlights answers
CaptureHighlights ==
    /\ phase = "received"
    /\ req.server = "cloud"
    /\ req.fn = "capture_highlights"
    /\ Respond(capture_highlights(req))

\* main.generate_html_report answers
GenerateHtmlReport ==
    /\ phase = "received"
    /\ req.server = "cloud"
    /\ req.fn = "generate_html_report"
    /\ Respond(generate_html_report(req))

\* main.extract_tables_enhanced answers
ExtractTablesEnhanced ==
    /\ phase = "received"
    /\ req.server = "cloud"
    /\ req.fn = "extract_tables_enhanced"
    /\ Respond(extract_tables_enhanced(req))

\* main.extract_figures_enhanced answers
ExtractFiguresEnhanced ==
    /\ phase = "received"
    /\ req.server = "cloud"
    /\ req.fn = "extract_figures_enhanced"
    /\ Respond(extract_figures_enhanced(req))

\* the client shuts its side of the connection: it sends no more
ClientShutdown ==
    /\ phase = "received"
    /\ req.server = "local"
    /\ ~rfile.eof
    /\ rfile' = [rfile EXCEPT !.eof = TRUE]
    /\ UNCHANGED <<phase, req, resp, log, first>>

\* the local server answers: do_POST returns once rfile.read has returned
DoPost ==
    /\ phase = "received"
    /\ req.server = "local"
    /\ req.method = "POST"
    /\ ~post_blocks(req, rfile)
    /\ \E out \in {do_POST(req, rfile)} :
          /\ resp' = out.resp
          /\ log' = out.log
          /\ rfile' = out.rfile
    /\ phase' = "responded"
    /\ UNCHANGED <<req, first>>

\* the local server answers an OPTIONS request
DoOptions ==
    /\ phase = "received"
    /\ req.server = "local"
    /\ req.method = "OPTIONS"
    /\ Respond(do_OPTIONS(req))

NextSections == ReceiveSections \/ DetectSections \/ DoPost \/ Finish
SpecSections == Init /\ [][NextSections]_vars

\* the nine functions of main.py
Handle ==
    \/ ExtractTextWithLayout \/ ExtractTables \/ ExtractTextWithPositions
    \/ DetectSections \/ ExtractFigures \/ CaptureHighlights
    \/ GenerateHtmlReport \/ ExtractTablesEnhanced \/ ExtractFiguresEnhanced

Next == ReceiveHttp \/ Handle \/ DoPost \/ Finish
Spec == Init /\ [][Next]_vars

NextCaptions ==
    \/ ReceiveTablesEnhanced \/ ReceiveFiguresEnhanced
    \/ ExtractTablesEnhanced \/ ExtractFiguresEnhanced \/ Finish
SpecCaptions == Init /\ [][NextCaptions]_vars

NextSequence == ReceiveAny \/ Handle \/ DoPost \/ Observe \/ Finish
SpecSequence == Init /\ [][NextSequence]_vars

NextTables ==
    ReceiveTables \/ ExtractTables \/ ExtractTablesEnhanced \/ DoPost \/ Finish
SpecTables == Init /\ [][NextTables]_vars

\* the lines of the layout documents: an empty line, a word, a word with a
\* trailing blank, a blank
LayoutLines == { <<>>, <<"a", "b">>, <<"c", " ">>, <<" ">> }

\* an extract_text_with_layout request arrives, as JSON to either server or as
\* an upload to main.py: a document of at most MaxPages pages and MaxLines
\* lines of LayoutLines
ReceiveLayout ==
    /\ phase = "idle"
    /\ \E pages \in 0..MaxPages, m \in 0..MaxLines :
        \E lines \in [1..m -> LayoutLines], pg \in Layouts(m, pages),
           target \in {"cloud", "local", "upload"} :
            LET doc == SectionDoc(Laid(lines, pg, pages)) IN
            Receive(IF target = "upload"
                    THEN MultipartRequest("cloud", "extract_text_with_layout",
                                          PdfBytes(doc), Value(None))
                    ELSE PdfRequest(target, "extract_text_with_layout", doc))

NextLayout == ReceiveLayout \/ ExtractTextWithLayout \/ DoPost \/ Finish
SpecLayout == Init /\ [][NextLayout]_vars

\* ---- the documents and highlights of the screenshots

MaxHighlights == 2

\* the highlights: one on every page from 0 to one past the last, one with
\* no key at all, one whose x1 is left of its x0, the whole page, one that
\* reaches over the right and lower edge, one right of the page, one whose
\* scaled coordinates are no whole pixels at 150 dpi, one with true and
\* false for page and coordinates, and a number in the place of a highlight
HighlightChoices ==
    { Highlight(page, 100, 100, 300, 120) : page \in 0..(MaxPages + 1) }
    \cup { PyDict(<<>>, <<>>),
           Highlight(1, 300, 100, 100, 120),
           Highlight(1, 0, 0, 612, 792),
           Highlight(1, 600, 780, 700, 800),
           Highlight(1, 700, 100, 710, 120),
           Highlight(1, 30, 54, 105, 199),
           PyDict(<<"page", "x0", "y0">>,
                  [page |-> PyBool(TRUE), x0 |-> PyBool(TRUE), y0 |-> PyBool(FALSE)]),
           PyInt(1) }

\* dpi and padding: the defaults, or one pixel per point without padding,
\* or 100 dpi with a padding of 30, or 150 dpi with a padding of 1, or true
\* for both (the ints 1 and 1)
RenderOptions == {
    PyDict(<<>>, <<>>),
    PyDict(<<"dpi", "padding">>, [dpi |-> PyInt(72), padding |-> PyInt(0)]),
    PyDict(<<"dpi", "padding">>, [dpi |-> PyInt(100), padding |-> PyInt(30)]),
    PyDict(<<"dpi", "padding">>, [dpi |-> PyInt(150), padding |-> PyInt(1)]),
    PyDict(<<"dpi", "padding">>, [dpi |-> PyBool(TRUE), padding |-> PyBool(TRUE)])
}

\* a capture_highlights or generate_html_report request arrives: a document
\* of at most MaxPages pages and at most MaxHighlights highlights of
\* HighlightChoices
ReceiveHighlights ==
    /\ phase = "idle"
    /\ \E pages \in 0..MaxPages, n \in 1..MaxHighlights :
        \E highlights \in [1..n -> HighlightChoices], options \in RenderOptions,
           fn \in {"capture_highlights", "generate_html_report"} :
            Receive(JsonRequest("cloud", fn,
                        Value(PdfBody(
                            B64Pdf(AsSeq([i \in 1..pages |-> EmptyPage])),
                            PyDict(<<"highlights">> \o options.keys,
                                   ("highlights" :> PyList(AsSeq(highlights)))
                                   @@ options.v)))))

NextHighlights == ReceiveHighlights \/ CaptureHighlights \/ GenerateHtmlReport \/ Finish
SpecHighlights == Init /\ [][NextHighlights]_vars

\* an extract_figures_enhanced request arrives: a document of at most MaxPages
\* pages and MaxImages images of CaptionImages, with the default min_size or
\* with a min_size of 300
ReceiveFigures ==
    /\ phase = "idle"
    /\ \E pages \in 0..MaxPages, n \in 0..MaxImages :
        \E images \in [1..n -> CaptionImages], ipg \in Layouts(n, pages),
           options \in {PyDict(<<>>, <<>>),
                        PyDict(<<"min_size">>, [min_size |-> PyInt(300)])} :
            Receive(JsonRequest("cloud", "extract_figures_enhanced",
                        Value(PdfBody(
                            B64Pdf(CaptionDoc(Laid(<<>>, <<>>, pages),
                                              Laid(<<>>, <<>>, pages), FALSE,
                                              Laid(images, ipg, pages))),
                            options))))

NextFigures == ReceiveFigures \/ ExtractFiguresEnhanced \/ Finish
SpecFigures == Init /\ [][NextFigures]_vars

(***************************************************************************)
(* The test runners: tests/test_extraction_integration.py and              *)
(* tests/test_html_report.py                                               *)
(***************************************************************************)

\* tests of run_all_tests in test_extraction_integration.py
integration_tests == <<"test_table_extraction_button_exists",
                       "test_figure_extraction_button_exists",
                       "test_tab_switching", "test_error_handling_no_pdf",
                       "test_table_extraction_workflow",
                       "test_figure_extraction_workflow",
                       "test_highlight_persistence">>

\* tests of run_all_tests in test_html_report.py
html_report_tests == <<"test_extract_tables_enhanced", "test_extract_figures_enhanced",
                       "test_capture_highlights", "test_generate_html_report">>

\* what one integration test does: setup_method raises before self.browser
\* is assigned ("no browser") or after it ("no page"), or the test runs and
\* passes or raises
IntegrationOutcomes == {"passes", "raises", "no browser", "no page"}

\* what one html-report test does
HtmlReportOutcomes == {"true", "false", "raises"}

\* the tests of a run
TestsOf(run) == IF run.fn = "integration" THEN integration_tests ELSE html_report_tests

\* the counters of a run and the way run_all_tests has ended: returned is
\* None until it returns, raised is the exception that left it
Tally(passed, failed, returned, raised) ==
    [passed |-> passed, failed |-> failed, returned |-> returned, raised |-> raised]

\* TestExtractionIntegration.setup_method of the k-th test: the attributes
\* of test_instance are assigned one by one, so self.browser exists once
\* the launch of this or of an earlier test has returned
has_browser(run, k) == \E j \in 1..k : run.outcomes[j] # "no browser"

\* TestExtractionIntegration.teardown_method after the k-th test:
\* self.browser.close() raises AttributeError when no browser was ever
\* assigned; on the closed browser of an earlier test it raises or returns,
\* as the browser library decides
teardown_method(run, k) ==
    IF ~has_browser(run, k) THEN Raise("AttributeError")
    ELSE IF run.outcomes[k] = "no browser" /\ run.stale_close = "raises"
    THEN Raise("Error")
    ELSE Value(None)

\* one turn of the loop of run_all_tests in test_extraction_integration.py:
\* try setup_method and the test, except Exception count it failed,
\* finally teardown_method
integration_turn(run, k, tally) ==
    LET outcome == run.outcomes[k]
        ran == outcome \in {"passes", "raises"}
        calls == <<"setup_method">> \o (IF ran THEN <<"test">> ELSE <<>>)
                 \o <<"teardown_method">>
        passed == IF outcome = "passes" THEN tally.passed + 1 ELSE tally.passed
        failed == IF outcome = "passes" THEN tally.failed ELSE tally.failed + 1
        torn == teardown_method(run, k)
    IN Outcome(Tally(passed, failed, None, IF torn.raised THEN torn.error ELSE ""), calls)

\* one turn of the loop of run_all_tests in test_html_report.py
html_report_turn(run, k, tally) ==
    LET outcome == run.outcomes[k]
        passed == IF outcome = "true" THEN tally.passed + 1 ELSE tally.passed
        failed == IF outcome = "true" THEN tally.failed ELSE tally.failed + 1
    IN Outcome(Tally(passed, failed, None, ""), <<"test">>)

\* run_all_tests is started: passed = 0, failed = 0
StartRun ==
    /\ phase = "idle"
    /\ \E fn \in {"integration", "html_report"}, stale_close \in {"raises", "returns"} :
        \E outcomes \in IF fn = "integration"
                         THEN [1..Len(integration_tests) -> IntegrationOutcomes]
                         ELSE [1..Len(html_report_tests) -> HtmlReportOutcomes] :
          /\ fn = "html_report" => stale_close = "returns"
          /\ req' = [server |-> "runner", fn |-> fn, outcomes |-> AsSeq(outcomes),
                     stale_close |-> stale_close]
    /\ resp' = Tally(0, 0, None, "")
    /\ log' = <<>>
    /\ phase' = "running"
    /\ UNCHANGED <<first, rfile>>

\* the position of the loop: the tests counted so far
Turn == resp.passed + resp.failed

\* for test in tests: the next turn of the loop; an exception raised by
\* teardown_method leaves run_all_tests
RunTest ==
    /\ phase = "running"
    /\ Turn < Len(TestsOf(req))
    /\ LET out == IF req.fn = "integration"
                  THEN integration_turn(req, Turn + 1, resp)
                  ELSE html_report_turn(req, Turn + 1, resp)
       IN /\ resp' = out.resp
          /\ log' = log \o out.log
          /\ phase' = IF out.resp.raised # "" THEN "responded" ELSE "running"
    /\ UNCHANGED <<req, first, rfile>>

\* return failed == 0
ReturnRun ==
    /\ phase = "running"
    /\ Turn = Len(TestsOf(req))
    /\ resp' = [resp EXCEPT !.returned = PyBool(resp.failed = 0)]
    /\ phase' = "responded"
    /\ UNCHANGED <<req, log, first, rfile>>

NextRunner == StartRun \/ RunTest \/ ReturnRun \/ Finish
SpecRunner == Init /\ [][NextRunner]_vars

MaxFields == 2
MaxDepth == 2

\* the names of the fields of a section
FieldNames == <<"mortality", "gos", "n", "age">>

RECURSIVE Nested(_)
\* a value nested in depth dicts without 'value'
Nested(depth) ==
    IF depth = 0 THEN PyDict(<<"value">>, [value |-> PyInt(5)])
    ELSE PyDict(<<"good">>, [good |-> Nested(depth - 1)])

\* the fields of a section: scalars, a value with and without its source,
\* an empty dict and nested dicts
FieldChoices ==
    { PyInt(40), None, PyList(<<>>), PyDict(<<>>, <<>>),
      PyDict(<<"value", "sourceText">>,
             [value |-> StrOf(<<"1", "2", "%">>), sourceText |-> StrOf(<<"d", "i", "e", "d">>)]),
      PyDict(<<"poor", "rest">>, [poor |-> PyInt(1), rest |-> PyDict(<<>>, <<>>)]) }
    \cup { Nested(depth) : depth \in 0..MaxDepth }

\* the top-level entries next to the section
TopChoices == { StrOf(<<"x">>), PyDict(<<>>, <<>>), PyDict(<<"value">>, [value |-> PyInt(7)]) }

\* a request for a report of extraction_data, without highlights
ReceiveReport ==
    /\ phase = "idle"
    /\ \E n \in 0..MaxFields, extra \in BOOLEAN :
        \E fields \in [1..n -> FieldChoices], top \in TopChoices :
          LET names == SubSeq(FieldNames, 1, n)
              section == PyDict(names, [name \in { names[i] : i \in 1..n } |->
                                           fields[CHOOSE i \in 1..n : names[i] = name]])
              data == IF extra
                      THEN PyDict(<<"note", "outcomes">>, [note |-> top, outcomes |-> section])
                      ELSE PyDict(<<"outcomes">>, [outcomes |-> section])
          IN Receive(JsonRequest("cloud", "generate_html_report",
                 Value(PdfBody(B64Pdf(<<EmptyPage>>),
                               PyDict(<<"extraction_data">>, [extraction_data |-> data])))))

NextReport == ReceiveReport \/ GenerateHtmlReport \/ Finish
SpecReport == Init /\ [][NextReport]_vars

\* the client's connection: open, or lost before the header block or
\* before the body is written
Connections == {"open", "lost before headers", "lost before body"}

\* a POST request arrives at the local server, from a client that stays or
\* goes away
\* the Content-Length header: the length of the text of the body, one less,
\* twice as much, none, no number, -1 and -2
ContentLengths == {StrOf(str_int(BodyBytes)), StrOf(str_int(BodyBytes - 1)),
                   StrOf(str_int(2 * BodyBytes)), None, StrOf(<<"a", "b", "c">>),
                   StrOf(<<" ", "-", "1">>), StrOf(<<"-", "2">>)}

\* the client sends the text of its body once or twice
ReceivePost ==
    /\ phase = "idle"
    /\ \E path \in LocalPaths, json \in HttpJson, connection \in Connections,
          content_length \in ContentLengths, method \in {"POST", "OPTIONS"},
          sent \in {BodyBytes, 2 * BodyBytes} :
          Receive([JsonRequest("local", path, json)
                      EXCEPT !.connection = connection, !.method = method,
                             !.content_length = content_length, !.sent = sent])

NextPost == ReceivePost \/ ClientShutdown \/ DoPost \/ DoOptions \/ Finish
SpecPost == Init /\ [][NextPost]_vars

NextPositions == ReceivePositions \/ ExtractTextWithPositions \/ DoPost \/ Finish
SpecPositions == Init /\ [][NextPositions]_vars

(***************************************************************************)
(* test_extraction.py: the script that calls the functions of main.py      *)
(***************************************************************************)

\* the names bound in the namespace of main.py: its functions, what it
\* imports and assigns at module level, and the attributes of every module
MainDefinitions ==
    Functions
    \cup {"get_cors_origins", "pdf_options", "timeout_options",
          "https_fn", "options", "initialize_app", "pdfplumber", "io", "json",
          "base64", "os",
          "__name__", "__doc__", "__file__", "__package__", "__loader__",
          "__spec__", "__builtins__", "__cached__"}

\* from main import <name>
import_from_main(name) ==
    IF name \in MainDefinitions THEN Value(name) ELSE Raise("ImportError")

\* <name>(req) for a function of main.py: its response
call_main(name, r) ==
    CASE name = "extract_text_with_layout" -> extract_text_with_layout(r).resp
      [] name = "extract_tables" -> extract_tables(r).resp
      [] name = "extract_text_with_positions" -> extract_text_with_positions(r).resp
      [] name = "detect_sections" -> detect_sections(r).resp
      [] name = "extract_figures" -> extract_figures(r).resp
      [] name = "capture_highlights" -> capture_highlights(r).resp
      [] name = "generate_html_report" -> generate_html_report(r).resp
      [] name = "extract_tables_enhanced" -> extract_tables_enhanced(r).resp
      [] name = "extract_figures_enhanced" -> extract_figures_enhanced(r).resp

\* test_extract_for_llm(pdf_base64): the result it returns, or the exception
\* that leaves it
test_extract_for_llm(pdf_base64) ==
    LET imported == import_from_main("extract_for_llm") IN
    IF imported.raised THEN imported
    ELSE Value(call_main(imported.value,
                         JsonRequest("cloud", imported.value,
                             Value(PdfBody(pdf_base64,
                                 PyDict(<<"page_chunks", "embed_images">>,
                                        [page_chunks |-> PyBool(TRUE),
                                         embed_images |-> PyBool(FALSE)]))))).body)

(***************************************************************************)
(* The properties                                                          *)
(***************************************************************************)

\* string[a:b]
PySlice(string, a, b) ==
    LET hi == IF b < Len(string) THEN b ELSE Len(string)
    IN IF a >= hi THEN <<>> ELSE SubSeq(string, a + 1, hi)

\* the request carries a base64 string that decodes to a PDF document
CarriesPdf(r) ==
    /\ ~r.json.raised
    /\ r.json.value.t = "dict"
    /\ "pdf_base64" \in DOMAIN r.json.value.v
    /\ r.json.value.v.pdf_base64.t = "str"
    /\ r.json.value.v.pdf_base64.decoded # BadPadding
    /\ r.json.value.v.pdf_base64.decoded.pdf

\* the pages of that document
PagesOf(r) == r.json.value.v.pdf_base64.decoded.pages

\* a function has answered the current request
Answered(fn) == phase = "responded" /\ req.fn = fn

\* ... with success
Succeeded(fn) == Answered(fn) /\ resp.status = 200

RECURSIVE DocLines(_)
\* the lines of a document, page after page
DocLines(pages) ==
    IF pages = <<>> THEN <<>>
    ELSE split(extract_text_or_empty(Head(pages)), "\n") \o DocLines(Tail(pages))

\* the keywords a whole line must equal, with the label of each
SectionKeywords == {
    <<kw_abstract, "abstract">>,
    <<kw_introduction, "introduction">>, <<kw_background, "introduction">>,
    <<kw_methods, "methods">>, <<kw_patients, "methods">>,
    <<kw_materials, "methods">>, <<kw_study_design, "methods">>,
    <<kw_subjects, "methods">>,
    <<kw_patients \o kw_and_methods, "methods">>,
    <<kw_materials \o kw_and_methods, "methods">>,
    <<kw_results, "results">>, <<kw_discussion, "discussion">>,
    <<kw_conclusion, "conclusion">>, <<kw_conclusion \o <<"s">>, "conclusion">>,
    <<kw_references, "references">>, <<kw_bibliography, "references">>
}

\* the lower-case character c is the keyword character k to re.IGNORECASE:
\* the long s U+017F and the dotless i U+0131, which str.lower() leaves as
\* they are, are an s and an i; exact is the reading without them
SameCharacter(c, k, exact) ==
    \/ c = k
    \/ ~exact /\ k = "s" /\ c = "U+017F"
    \/ ~exact /\ k = "i" /\ c = "U+0131"

\* the first n characters of s are the keyword kw of n characters
BeginsWith(s, kw, exact) ==
    /\ Len(s) >= Len(kw)
    /\ \A i \in 1..Len(kw) : SameCharacter(s[i], kw[i], exact)

\* s begins with one of the keywords, then optional whitespace, then a digit
KeywordThenDigit(s, keywords, exact) ==
    \E kw \in keywords :
        /\ BeginsWith(s, kw, exact)
        /\ \E d \in (Len(kw) + 1)..Len(s) :
              /\ s[d] \in Digits
              /\ \A j \in (Len(kw) + 1)..(d - 1) : s[j] \in Whitespace

\* the label of the section a line starts, "none" when it starts none;
\* exact asks for the very characters of the keyword
LabelOf(line, exact) ==
    LET s == lower(strip(line))
        is(e) == Len(s) = Len(e[1]) /\ BeginsWith(s, e[1], exact)
    IN IF \E e \in SectionKeywords : is(e)
       THEN (CHOOSE e \in SectionKeywords : is(e))[2]
       ELSE IF KeywordThenDigit(s, {kw_table}, exact) THEN "table"
       ELSE IF KeywordThenDigit(s, {kw_figure, kw_fig, kw_fig \o <<".">>}, exact)
       THEN "figure"
       ELSE "none"

\* the label of the section a line starts in the code
HeadingLabel(line) == LabelOf(line, FALSE)

RECURSIVE HeadingIndexes(_, _)
\* the indexes, from i on, of the lines that start a section
HeadingIndexes(lines, i) ==
    IF i > Len(lines) THEN <<>>
    ELSE (IF HeadingLabel(lines[i]) # "none" THEN <<i>> ELSE <<>>)
         \o HeadingIndexes(lines, i + 1)

RECURSIVE ExactHeadingIndexes(_, _)
\* the indexes, from i on, of the lines that equal a keyword, or begin with
\* table / figure / fig / fig. and a digit, character for character
ExactHeadingIndexes(lines, i) ==
    IF i > Len(lines) THEN <<>>
    ELSE (IF LabelOf(lines[i], TRUE) # "none" THEN <<i>> ELSE <<>>)
         \o ExactHeadingIndexes(lines, i + 1)

RECURSIVE OffsetBefore(_, _)
\* the sum of len(line) + 1 over the lines before line i
OffsetBefore(lines, i) ==
    IF i <= 1 THEN 0
    ELSE OffsetBefore(lines, i - 1) + Len(lines[i - 1]) + 1

(***************************************************************************)
(* C1.  For every entry p of the positions returned by                     *)
(* extract_text_with_positions, text[p.startChar : p.endChar] of the       *)
(* returned text is p.text.  The code does not keep this: the returned     *)
(* text is full_text.strip(), so that a first page without words shifts    *)
(* every position by the two stripped newlines.                            *)
(***************************************************************************)
C1_PositionsIndexReturnedText ==
    Succeeded("extract_text_with_positions") =>
        \A i \in 1..Len(resp.body.positions) :
            LET p == resp.body.positions[i]
            IN PySlice(resp.body.text, p.startChar, p.endChar) = p.text

(***************************************************************************)
(* C6.  detect_sections starts one section for every line whose stripped,  *)
(* lower-cased form is a section keyword to re.IGNORECASE, or begins with  *)
(* table / figure / fig / fig. to re.IGNORECASE followed by optional       *)
(* whitespace and a digit, none for any other line, and labels the         *)
(* sections, in line order, by the first pattern that matches.  To         *)
(* re.IGNORECASE the long s U+017F is an s and the dotless i U+0131 an i:  *)
(* str.lower() leaves both as they are, so the line need not equal the     *)
(* keyword.                                                                *)
(***************************************************************************)
C6_SectionPerHeadingLine ==
    (Succeeded("detect_sections") /\ CarriesPdf(req)) =>
        LET lines == DocLines(PagesOf(req))
            heads == HeadingIndexes(lines, 1)
            sections == resp.body.sections
        IN /\ Len(sections) = Len(heads)
           /\ \A k \in 1..Len(heads) :
                 sections[k].name = HeadingLabel(lines[heads[k]])

\* a line that only begins with a keyword starts nothing, a padded
\* upper-case heading starts a section
C6_Witness ==
    /\ Succeeded("detect_sections")
    /\ DocLines(PagesOf(req)) =
          << <<"r", "e", "s", "u", "l", "t", "s", " ", "o", "f">>,
             <<" ", "R", "E", "S", "U", "L", "T", "S", " ">> >>
    /\ Len(resp.body.sections) = 1
    /\ resp.body.sections[1].name = "results"

\* C6 as stated: a named section starts only at a line whose stripped,
\* lower-cased form equals a keyword, a table or figure section only at one
\* that begins with the keyword and a digit.  The lines "re\u017fults" and
\* "f\u0131gure4a" equal and begin with no keyword and start the sections
\* results and figure.
C6_AsStated ==
    (Succeeded("detect_sections") /\ CarriesPdf(req)) =>
        LET lines == DocLines(PagesOf(req))
            heads == ExactHeadingIndexes(lines, 1)
            sections == resp.body.sections
        IN /\ Len(sections) = Len(heads)
           /\ \A k \in 1..Len(heads) :
                 sections[k].name = LabelOf(lines[heads[k]], TRUE)

\* a line with a long s for the s of results starts the section results, a
\* line with a dotless i for the i of figure a section figure
C6_IgnoreCaseWitness ==
    /\ Succeeded("detect_sections")
    /\ DocLines(PagesOf(req)) =
          << <<"r", "e", "U+017F", "u", "l", "t", "s">>,
             <<"f", "U+0131", "g", "u", "r", "e", "4", "a">> >>
    /\ Len(resp.body.sections) = 2
    /\ resp.body.sections[1].name = "results"
    /\ resp.body.sections[2].name = "figure"

(***************************************************************************)
(* C7.  The start_char of every section is the sum of len(line) + 1 over   *)
(* all lines of all pages before its heading line: one offset, never reset *)
(* at a page boundary.                                                     *)
(***************************************************************************)
C7_StartCharIsGlobalOffset ==
    (Succeeded("detect_sections") /\ CarriesPdf(req)) =>
        LET lines == DocLines(PagesOf(req))
            heads == HeadingIndexes(lines, 1)
            sections == resp.body.sections
        IN /\ Len(sections) = Len(heads)
           /\ \A k \in 1..Len(heads) :
                 sections[k].start_char = OffsetBefore(lines, heads[k])

\* a heading on the second page, after a line of the first page
C7_Witness ==
    /\ Succeeded("detect_sections")
    /\ Len(PagesOf(req)) = 2
    /\ Len(DocLines(PagesOf(req))) = 2
    /\ Len(DocLines(<<PagesOf(req)[1]>>)) = 1
    /\ Len(resp.body.sections) = 1
    /\ resp.body.sections[1].start_char > 1

(***************************************************************************)
(* C10.  For every PDF that opens, a document without pages included,      *)
(* extract_text_with_positions answers success with page_count the number  *)
(* of pages.  The code does not keep this for a document without pages:    *)
(* main.py reads the unassigned loop variable and answers 500, and         *)
(* local_server.py answers page_count 1.                                   *)
(***************************************************************************)
C10_PageCountIsNumberOfPages ==
    (Answered("extract_text_with_positions") /\ CarriesPdf(req)) =>
        /\ resp.status = 200
        /\ resp.body.page_count = Len(PagesOf(req))

\* ---- the requests of the HTTP level, by what they carry

\* the request is a multipart upload to extract_text_with_layout, which reads
\* the uploaded file and not the JSON body
IsUpload(r) ==
    r.fn = "extract_text_with_layout" /\ contains_multipart(r.content_type)

\* the JSON body is absent (get_json() yields None)
BodyAbsent(r) == r.json = Value(None)

\* the JSON body is an empty value
BodyEmpty(r) == ~r.json.raised /\ r.json.value # None /\ ~truthy(r.json.value)

\* the JSON body is an object
BodyIsObject(r) == ~r.json.raised /\ r.json.value.t = "dict"

\* the JSON body is an object with the key pdf_base64
HasPdfKey(r) == BodyIsObject(r) /\ "pdf_base64" \in DOMAIN r.json.value.v

\* the key key of the body, or default
BodyGet(r, key, default) == dict_get(r.json.value, key, default)

\* the key pdf_base64 is present and is base64 text
Decodes(r) == HasPdfKey(r) /\ ~b64decode(r.json.value.v.pdf_base64).raised

\* the response is this error
IsError(response, status, msg) == response = Response(status, [error |-> msg])

\* the handler called this function of a library
Called(call) == \E i \in 1..Len(log) : log[i] = call

\* a function of main.py has answered the current request
CloudAnswered == phase = "responded" /\ req.server = "cloud"

(***************************************************************************)
(* C2 (as stated).  For each of the nine functions of main.py: when the    *)
(* JSON body is absent, empty, or has no key pdf_base64, the answer is 400 *)
(* {"error": "pdf_base64 required"} and nothing is decoded or opened.      *)
(* Violated: a multipart upload to extract_text_with_layout has no JSON    *)
(* body and is answered from its file, and a body that is a number or true *)
(* has no key and ends in 500.                                             *)
(***************************************************************************)
C2_AsStated ==
    (CloudAnswered /\ (BodyAbsent(req) \/ BodyEmpty(req)
                       \/ (~req.json.raised /\ ~HasPdfKey(req))))
    => /\ IsError(resp, 400, "pdf_base64 required")
       /\ ~Called("b64decode") /\ ~Called("open")

(***************************************************************************)
(* C2 (amended).  For each of the nine functions of main.py and every      *)
(* request that is not a multipart upload to extract_text_with_layout:     *)
(* when get_json() yields no body (None), an empty value, or a JSON object *)
(* without the key pdf_base64, the answer is 400                           *)
(* {"error": "pdf_base64 required"} and nothing is decoded or opened.      *)
(***************************************************************************)
C2_MissingPdfIs400 ==
    (CloudAnswered /\ ~IsUpload(req)
     /\ (BodyAbsent(req) \/ BodyEmpty(req) \/ (BodyIsObject(req) /\ ~HasPdfKey(req))))
    => /\ IsError(resp, 400, "pdf_base64 required")
       /\ ~Called("b64decode") /\ ~Called("open")

\* capture_highlights has answered 400 to no body at all
C2_Witness ==
    /\ CloudAnswered /\ req.fn = "capture_highlights"
    /\ BodyAbsent(req)
    /\ IsError(resp, 400, "pdf_base64 required")
    /\ log = <<>>

\* ---- the exceptions of a request

\* the bytes the function hands to the PDF library, when it gets that far
HasBytes(r) == IF IsUpload(r) THEN r.file # None ELSE Decodes(r)
BytesOf(r) == IF IsUpload(r) THEN r.file ELSE r.json.value.v.pdf_base64.decoded

\* the function opens the document: the two that render highlights do so
\* only for a non-empty highlights value
OpensDocument(r) ==
    /\ HasBytes(r)
    /\ r.fn \in {"capture_highlights", "generate_html_report"}
       => truthy(BodyGet(r, "highlights", PyList(<<>>)))

\* reading the request raises
RaisesReading(r) == ~IsUpload(r) /\ r.json.raised

\* decoding the base64 text raises
RaisesDecoding(r) == ~IsUpload(r) /\ HasPdfKey(r) /\ ~Decodes(r)

\* opening the bytes as a PDF raises
RaisesParsing(r) == OpensDocument(r) /\ ~BytesOf(r).pdf

\* reading a page raises, in a function that reads every page
RaisesOnPage(r) ==
    /\ OpensDocument(r) /\ BytesOf(r).pdf
    /\ r.fn \notin {"capture_highlights", "generate_html_report"}
    /\ \E i \in 1..Len(BytesOf(r).pages) : BytesOf(r).pages[i].broken

(***************************************************************************)
(* C3.  Every function of main.py returns exactly one response to every    *)
(* request: 200 with success = true, or 400 or 500 with a body            *)
(* {"error": message}; and a request for which reading the body, decoding  *)
(* the base64 text, opening the PDF or reading a page raises is answered   *)
(* 500: the exception is not propagated.                                   *)
(***************************************************************************)
C3_ErrorsAreAnswered500 ==
    CloudAnswered
    => /\ resp # None
       /\ resp.status \in {200, 400, 500}
       /\ resp.status = 200
          => ("success" \in DOMAIN resp.body /\ resp.body.success = TRUE)
       /\ resp.status \in {400, 500} => DOMAIN resp.body = {"error"}
       /\ (RaisesReading(req) \/ RaisesDecoding(req) \/ RaisesParsing(req)
           \/ RaisesOnPage(req))
          => resp.status = 500

\* extract_tables has answered 500 for a document with a page that cannot be
\* read, after opening and closing it
C3_Witness ==
    /\ CloudAnswered /\ req.fn = "extract_tables"
    /\ RaisesOnPage(req)
    /\ resp.status = 500
    /\ Called("open")

\* ---- highlights

\* the body has the key pdf_base64 and no highlights, or an empty list
WithoutHighlights(r) ==
    /\ HasPdfKey(r)
    /\ BodyGet(r, "highlights", PyList(<<>>)) = PyList(<<>>)

\* the report of a success without screenshot
EmptyReport ==
    /\ resp.status = 200
    /\ resp.body.success = TRUE
    /\ resp.body.screenshots = 0
    /\ resp.body.html.heading = 0
    /\ resp.body.html.cards = <<>>

(***************************************************************************)
(* C9 (as stated).  When pdf_base64 is present but highlights is missing   *)
(* or an empty list, capture_highlights answers 400                        *)
(* {"error": "highlights array required"} without a screenshot, and        *)
(* generate_html_report answers success with a report of 0 screenshots.    *)
(* Violated: both decode pdf_base64 first, so a value that is no base64    *)
(* text ends in 500.                                                       *)
(***************************************************************************)
C9_AsStated ==
    /\ (CloudAnswered /\ req.fn = "capture_highlights" /\ WithoutHighlights(req))
       => (IsError(resp, 400, "highlights array required") /\ ~Called("open"))
    /\ (CloudAnswered /\ req.fn = "generate_html_report" /\ WithoutHighlights(req))
       => EmptyReport

(***************************************************************************)
(* C9 (amended).  When pdf_base64 is present and decodes as base64 but     *)
(* highlights is missing or an empty list, capture_highlights answers 400  *)
(* {"error": "highlights array required"} and opens no document, and       *)
(* generate_html_report, when extraction_data is missing or an object,     *)
(* answers success with a report of 0 screenshots, also without opening    *)
(* the document.                                                           *)
(***************************************************************************)
C9_HighlightsRequiredOrNot ==
    /\ (CloudAnswered /\ req.fn = "capture_highlights"
        /\ WithoutHighlights(req) /\ Decodes(req))
       => (IsError(resp, 400, "highlights array required") /\ ~Called("open"))
    /\ (CloudAnswered /\ req.fn = "generate_html_report"
        /\ WithoutHighlights(req) /\ Decodes(req)
        /\ BodyGet(req, "extraction_data", PyDict(<<>>, <<>>)).t = "dict")
       => (EmptyReport /\ ~Called("open"))

\* capture_highlights has refused an empty highlights list sent with a PDF
C9_Witness ==
    /\ CloudAnswered /\ req.fn = "capture_highlights"
    /\ Decodes(req) /\ BytesOf(req).pdf
    /\ "highlights" \in DOMAIN req.json.value.v
    /\ req.json.value.v.highlights = PyList(<<>>)
    /\ IsError(resp, 400, "highlights array required")

\* ---- captions

RECURSIVE EntriesOfPage(_, _)
\* the entries of the response that are of page page_num, in order
EntriesOfPage(entries, page_num) ==
    IF entries = <<>> THEN <<>>
    ELSE (IF Head(entries).page = page_num THEN <<Head(entries)>> ELSE <<>>)
         \o EntriesOfPage(Tail(entries), page_num)

\* the caption lines of a page, in line order
CaptionsOf(page, caption_patterns) ==
    find_captions(split(extract_text_or_empty(page), "\n"), caption_patterns, 1)

\* the N-th entry of every page has the N-th caption of the page, or ""
PairedInOrder(entries, pages, caption_patterns) ==
    \A page_num \in 1..Len(pages) :
        LET emitted == EntriesOfPage(entries, page_num)
            captions == CaptionsOf(pages[page_num], caption_patterns)
        IN \A n \in 1..Len(emitted) :
               emitted[n].caption = IF n <= Len(captions) THEN captions[n] ELSE <<>>

(***************************************************************************)
(* C4.  In extract_tables_enhanced with detect_captions true, the N-th     *)
(* table emitted for a page has the N-th caption line of that page, and    *)
(* the empty string when there is no N-th caption.  The code does not keep *)
(* this: it takes captions[j] for j the index of the table among all       *)
(* tables of the page, the skipped empty ones included.                    *)
(***************************************************************************)
C4_NthTableHasNthCaption ==
    (Succeeded("extract_tables_enhanced")
     /\ truthy(BodyGet(req, "detect_captions", PyBool(TRUE))))
    => PairedInOrder(resp.body.tables, PagesOf(req), table_caption_patterns)

(***************************************************************************)
(* C5.  In extract_figures_enhanced, the N-th figure emitted for a page    *)
(* has the N-th figure-caption line of that page, and the empty string     *)
(* when there is no N-th caption.  The code does not keep this: it takes   *)
(* captions[img_idx] for img_idx the index of the image among all images   *)
(* of the page, the skipped small or unreadable ones included.             *)
(***************************************************************************)
C5_NthFigureHasNthCaption ==
    Succeeded("extract_figures_enhanced")
    => PairedInOrder(resp.body.figures, PagesOf(req), figure_caption_patterns)

\* ---- sequences of requests

\* two requests are the same request, sent at whatever time: the same
\* server, path, headers and body
SameRequest(a, b) == [a EXCEPT !.clock = 0] = [b EXCEPT !.clock = 0]

\* a response, apart from the timestamp of generate_html_report
ApartFromTimestamp(response) ==
    IF "timestamp" \in DOMAIN response.body
    THEN [response EXCEPT !.body.timestamp = 0, !.body.html.generated = 0]
    ELSE response

\* the response to the request is the response the same request got when
\* the observer noted it earlier in the sequence
AnsweredAsBefore ==
    (phase = "responded" /\ first # None /\ SameRequest(first.req, req))
    => ApartFromTimestamp(resp) = ApartFromTimestamp(first.resp)

(***************************************************************************)
(* C8.  The handlers of main.py and local_server.py are stateless: the     *)
(* one state a handler reads and writes, the connection do_POST reads the  *)
(* body from, does not outlive the request (what do_POST left unread is    *)
(* gone with it), and the response to a request is, apart from the         *)
(* timestamp of generate_html_report, the response the same request got at *)
(* any earlier point of the sequence of requests, whatever was served in   *)
(* between.                                                                *)
(***************************************************************************)
C8_ResponseDependsOnRequestOnly ==
    /\ phase = "idle" => rfile = None
    /\ AnsweredAsBefore

\* the local server has answered a request as it had answered it earlier in
\* the sequence, and do_POST has left the second copy of the body unread
C8_Witness ==
    /\ phase = "responded" /\ first # None
    /\ req.server = "local" /\ req.fn = "extract_tables"
    /\ SameRequest(first.req, req) /\ first.req.clock # req.clock
    /\ req.sent = 2 * BodyBytes
    /\ Len(rfile.data) = BodyBytes
    /\ resp.status = 200 /\ resp = first.resp

\* ---- the report

\* the highlights of the body, as a list
HighlightsOf(r) ==
    LET highlights == BodyGet(r, "highlights", PyList(<<>>)) IN
    IF highlights.t = "list" THEN highlights.v ELSE <<>>

\* the page of the highlight is a page of the document
PageWithin(highlight, pages) ==
    /\ highlight.t = "dict"
    /\ LET page == dict_get(highlight, "page", PyInt(1)) IN
       is_int(page) /\ int_of(page) >= 1 /\ int_of(page) <= Len(pages)

RECURSIVE HighlightsWithin(_, _)
\* the highlights whose page is within the document, in their order
HighlightsWithin(highlights, pages) ==
    IF highlights = <<>> THEN <<>>
    ELSE (IF PageWithin(Head(highlights), pages) THEN <<Head(highlights)>> ELSE <<>>)
         \o HighlightsWithin(Tail(highlights), pages)

(***************************************************************************)
(* C11.  In a successful response of generate_html_report the field        *)
(* screenshots, the number of the 'Visual Evidence (N screenshots)'        *)
(* heading and the number of evidence cards all equal the number of        *)
(* highlights whose page is within the document; the cards are in the      *)
(* order of these highlights, with their label, text and page; and every   *)
(* card embeds its image as a data:image/png;base64 URI.                   *)
(***************************************************************************)
C11_ReportEvidenceMatchesCount ==
    (CloudAnswered /\ req.fn = "generate_html_report" /\ resp.status = 200)
    => LET within == HighlightsWithin(HighlightsOf(req), BytesOf(req).pages)
           cards == resp.body.html.cards
       IN /\ resp.body.screenshots = Len(within)
          /\ resp.body.html.heading = Len(within)
          /\ Len(cards) = Len(within)
          /\ \A k \in 1..Len(cards) :
                /\ cards[k].label = dict_get(within[k], "label", StrOf(<<>>))
                /\ cards[k].text = dict_get(within[k], "text", StrOf(<<>>))
                /\ cards[k].page = dict_get(within[k], "page", PyInt(1))
                /\ cards[k].src.scheme = "data:image/png;base64"
                /\ cards[k].src.data.page = int_of(cards[k].page)

\* a report of two screenshots for three highlights, the first of which is
\* of a page the document does not have
C11_Witness ==
    /\ CloudAnswered /\ req.fn = "generate_html_report" /\ resp.status = 200
    /\ Len(HighlightsOf(req)) = 3
    /\ ~PageWithin(HighlightsOf(req)[1], BytesOf(req).pages)
    /\ resp.body.screenshots = 2
    /\ Len(resp.body.html.cards) = 2

\* ---- tables

\* a cell as the response shows it: the empty string for None and for ""
ShownCell(cell) == IF cell = NoText \/ cell = <<>> THEN <<>> ELSE cell
ShownRow(row) == AsSeq([j \in 1..Len(row) |-> ShownCell(row[j])])
ShownRows(rows) == AsSeq([i \in 1..Len(rows) |-> ShownRow(rows[i])])

RECURSIVE NonEmptyTables(_, _, _)
\* the non-empty tables of a document from table k of page page_num on, in
\* page order: each with its page and its index on the page
NonEmptyTables(pages, page_num, k) ==
    IF page_num > Len(pages) THEN <<>>
    ELSE IF k > Len(pages[page_num].tables) THEN NonEmptyTables(pages, page_num + 1, 1)
    ELSE (IF pages[page_num].tables[k] # <<>>
          THEN << [page |-> page_num, index |-> k - 1,
                   table |-> pages[page_num].tables[k]] >>
          ELSE <<>>)
         \o NonEmptyTables(pages, page_num, k + 1)

(***************************************************************************)
(* C12.  extract_tables (of main.py and of the local server) returns one   *)
(* entry for every non-empty table of every page, in page order: headers   *)
(* is the first row, rows is the remaining rows, raw is headers followed   *)
(* by rows, and every cell the library reported as None or empty is the    *)
(* empty string; empty tables have no entry; table_count is the number of  *)
(* entries.                                                                *)
(***************************************************************************)
C12_TablesHeadersAndRows ==
    Succeeded("extract_tables")
    => LET expected == NonEmptyTables(PagesOf(req), 1, 1)
           tables == resp.body.tables
       IN /\ Len(tables) = Len(expected)
          /\ resp.body.table_count = Len(tables)
          /\ \A n \in 1..Len(tables) :
                /\ tables[n].page = expected[n].page
                /\ tables[n].table_index = expected[n].index
                /\ tables[n].headers = ShownRow(Head(expected[n].table))
                /\ tables[n].rows = ShownRows(Tail(expected[n].table))
                /\ tables[n].raw = <<tables[n].headers>> \o tables[n].rows

\* extract_tables has answered for a document whose first table is empty and
\* whose second table has a None cell in a later row
C12_Witness ==
    /\ Succeeded("extract_tables")
    /\ Len(PagesOf(req)) = 1
    /\ Len(PagesOf(req)[1].tables) = 2
    /\ PagesOf(req)[1].tables[1] = <<>>
    /\ Len(PagesOf(req)[1].tables[2]) = 3
    /\ resp.body.table_count = 1
    /\ resp.body.tables[1].rows[1][1] = <<>>
    /\ Len(resp.body.tables[1].rows) = 2

\* a row of a cleaned table has a cell that is not blank
NonBlankRow(row) == \E j \in 1..Len(row) : row[j] \notin {<<>>, NoText} /\ strip(row[j]) # <<>>

\* the indexes of the rows of raw with a non-blank cell
NonBlankIndexes(raw) == { i \in 1..Len(raw) : NonBlankRow(raw[i]) }

\* the k-th smallest member of a finite set of integers
KthOf(S, k) == CHOOSE i \in S : Cardinality({ m \in S : m < i }) = k - 1

\* the pages with the tables extract_tables_enhanced reads from each: those of
\* the "lines" strategy, or of the "text" strategy when there are none
WithTablesRead(pages) ==
    AsSeq([p \in 1..Len(pages) |->
              [pages[p] EXCEPT !.tables = IF pages[p].tables = <<>>
                                          THEN pages[p].tables_text
                                          ELSE pages[p].tables]])

(***************************************************************************)
(* C13.  In every entry of extract_tables_enhanced, headers is the first   *)
(* row of the cleaned table that has a non-blank cell, rows are the later  *)
(* rows with a non-blank cell in their original order, column_count is     *)
(* len(headers), and row_count is the number of rows of raw, so that       *)
(* row_count = len(rows) + (1 if headers else 0) + the number of rows      *)
(* whose cells are all blank.                                              *)
(***************************************************************************)
C13_EnhancedHeadersRowsAndCounts ==
    Succeeded("extract_tables_enhanced")
    => LET expected == NonEmptyTables(WithTablesRead(PagesOf(req)), 1, 1)
           tables == resp.body.tables
       IN /\ Len(tables) = Len(expected)
          /\ \A n \in 1..Len(tables) :
                LET entry == tables[n]
                    kept == NonBlankIndexes(entry.raw)
                    blank == (1..Len(entry.raw)) \ kept
                IN /\ Len(entry.raw) = Len(expected[n].table)
                   /\ entry.headers = IF kept = {} THEN <<>>
                                      ELSE entry.raw[KthOf(kept, 1)]
                   /\ Len(entry.rows) = IF kept = {} THEN 0 ELSE Cardinality(kept) - 1
                   /\ \A k \in 1..Len(entry.rows) :
                         entry.rows[k] = entry.raw[KthOf(kept, k + 1)]
                   /\ entry.column_count = Len(entry.headers)
                   /\ entry.row_count = Len(entry.raw)
                   /\ entry.row_count = Len(entry.rows)
                                        + (IF entry.headers # <<>> THEN 1 ELSE 0)
                                        + Cardinality(blank)

\* extract_tables_enhanced has answered with a table that has headers, a data
\* row and an all-blank row between them
C13_Witness ==
    /\ Succeeded("extract_tables_enhanced")
    /\ \E n \in 1..Len(resp.body.tables) :
          /\ resp.body.tables[n].row_count = 3
          /\ Len(resp.body.tables[n].rows) = 1
          /\ resp.body.tables[n].column_count = 2
          /\ ~NonBlankRow(resp.body.tables[n].raw[2])

\* ---- layout

\* the pages of the document an extract_text_with_layout request carries
LayoutPages(r) == IF IsUpload(r) THEN r.file.pages ELSE PagesOf(r)

\* the text of a page as the response shows it: empty when the library
\* returns none
ShownText(page) == IF page.text = NoText THEN <<>> ELSE page.text

\* the marker line of page i
MarkerLine(i) ==
    <<"-", "-", "-", " ", "P", "a", "g", "e", " ">> \o str_int(i) \o <<" ", "-", "-", "-">>

BlankLine == <<"\n", "\n">>

\* the offset in the response's text of the marker line of page i
MarkerOffset(pages, i) ==
    IF i = 1 THEN 0
    ELSE LET RECURSIVE upto(_)
             upto(k) == IF k = 0 THEN 0
                        ELSE upto(k - 1) + Len(MarkerLine(k)) + 2
                             + Len(ShownText(pages[k])) + 2
         IN upto(i - 1)

\* string s occurs in text at offset o
OccursAt(text, s, o) == o + Len(s) <= Len(text) /\ SubSeq(text, o + 1, o + Len(s)) = s

\* the entries of pages and page_count: one entry per page, in order
LayoutPagesListed ==
    LET pages == LayoutPages(req) IN
    /\ Len(resp.body.pages) = Len(pages)
    /\ resp.body.page_count = Len(resp.body.pages)
    /\ \A i \in 1..Len(pages) :
          /\ resp.body.pages[i].page = i
          /\ resp.body.pages[i].text = ShownText(pages[i])

(***************************************************************************)
(* C14.  extract_text_with_layout returns one pages entry per page in      *)
(* document order with pages[i].page = i + 1 and page_count = len(pages);  *)
(* its text begins with the marker line of page 1 and holds, for every     *)
(* page in increasing order, the marker line "--- Page i ---", a blank     *)
(* line and the page's text (empty when the library returns none), except  *)
(* that the whole text is stripped: after the marker line of the last page *)
(* comes the blank line and that page's text without trailing white space, *)
(* and nothing else.                                                       *)
(***************************************************************************)
C14_LayoutTextIsStrippedMarkedPages ==
    Succeeded("extract_text_with_layout")
    => LET pages == LayoutPages(req)
           n == Len(pages)
           text == resp.body.text
       IN /\ LayoutPagesListed
          /\ n = 0 => text = <<>>
          /\ \A i \in 1..(n - 1) :
                OccursAt(text, MarkerLine(i) \o BlankLine \o ShownText(pages[i]) \o BlankLine,
                         MarkerOffset(pages, i))
          /\ n > 0 =>
                text = SubSeq(text, 1, MarkerOffset(pages, n))
                       \o rstrip(MarkerLine(n) \o BlankLine \o ShownText(pages[n]))

\* extract_text_with_layout has answered for two pages, the first without
\* text and the last with text that ends in white space
C14_Witness ==
    /\ Succeeded("extract_text_with_layout")
    /\ Len(LayoutPages(req)) = 2
    /\ LayoutPages(req)[1].text = NoText
    /\ ShownText(LayoutPages(req)[2]) = <<"a", "b", "\n", "c", " ">>
    /\ resp.body.text = MarkerLine(1) \o BlankLine \o BlankLine \o MarkerLine(2)
                        \o BlankLine \o <<"a", "b", "\n", "c">>

\* C14 as stated: every marker line, the last one too, is followed by the
\* whole text of its page
C14_AsStated ==
    Succeeded("extract_text_with_layout")
    => /\ LayoutPagesListed
       /\ \A i \in 1..Len(LayoutPages(req)) :
             LET page_text == ShownText(LayoutPages(req)[i]) IN
             OccursAt(resp.body.text,
                      MarkerLine(i) \o (IF page_text = <<>> THEN <<>>
                                        ELSE BlankLine \o page_text),
                      MarkerOffset(LayoutPages(req), i))

\* ---- the local server against main.py

\* the five endpoints of the local server
LocalEndpoints == {"extract_tables", "extract_figures", "extract_text_with_layout",
                   "detect_sections", "extract_text_with_positions"}

\* the response of the function of main.py of the same name to the same body
CloudResponseTo(r) ==
    LET same == [r EXCEPT !.server = "cloud"] IN
    CASE r.fn = "extract_tables" -> extract_tables(same).resp
      [] r.fn = "extract_figures" -> extract_figures(same).resp
      [] r.fn = "extract_text_with_layout" -> extract_text_with_layout(same).resp
      [] r.fn = "detect_sections" -> detect_sections(same).resp
      [] r.fn = "extract_text_with_positions" -> extract_text_with_positions(same).resp

\* the local server has answered a request with a JSON body to one of its
\* five endpoints
LocalAnswered ==
    /\ phase = "responded"
    /\ req.server = "local"
    /\ req.fn \in LocalEndpoints
    /\ ~req.json.raised

(***************************************************************************)
(* C15.  For every JSON request body, each of the five endpoints of        *)
(* local_server.py answers with the same status code and the same JSON     *)
(* body as the function of main.py of the same name.                       *)
(* Violated: for a document with an image that cannot be cropped, for      *)
(* {"pdf_base64": ""} and {"pdf_base64": null}, and for a body that is no  *)
(* object.                                                                 *)
(***************************************************************************)
C15_LocalAnswersAsCloud ==
    LocalAnswered => resp = CloudResponseTo(req)

\* ---- the test script

\* every entry of chunks carries page, text, tables and images
ChunksCarry(chunks) ==
    \A k \in 1..Len(chunks) :
        {"page", "text", "tables", "images"} \subseteq DOMAIN chunks[k]

(***************************************************************************)
(* C16.  main exposes an operation extract_for_llm: for a request with     *)
(* pdf_base64, page_chunks = true and embed_images = false, as the test    *)
(* script sends it, the answer is a success with a page_count and a list   *)
(* chunks whose entries carry page, text, tables and images.               *)
(* Violated: main.py defines no extract_for_llm, the import of the test    *)
(* raises ImportError.                                                     *)
(***************************************************************************)
C16_ExtractForLlmAnswersChunks ==
    (phase = "received" /\ CarriesPdf(req))
    => LET result == test_extract_for_llm(req.json.value.v.pdf_base64) IN
       /\ ~result.raised
       /\ {"success", "page_count", "chunks"} \subseteq DOMAIN result.value
       /\ result.value.success
       /\ ChunksCarry(result.value.chunks)

\* ---- sections

(***************************************************************************)
(* C17.  The sections of detect_sections are ordered and contiguous:       *)
(* start_char <= end_char in every section, the end_char of each section   *)
(* is the start_char of the next, the first section starts at the offset   *)
(* of the first heading line, and the end_char of the last section is the  *)
(* final global offset, the sum of len(line) + 1 over all lines of all     *)
(* pages.                                                                  *)
(***************************************************************************)
C17_SectionsAreContiguous ==
    (Succeeded("detect_sections") /\ CarriesPdf(req)) =>
        LET lines == DocLines(PagesOf(req))
            heads == HeadingIndexes(lines, 1)
            sections == resp.body.sections
            n == Len(sections)
        IN /\ \A k \in 1..n : sections[k].start_char <= sections[k].end_char
           /\ \A k \in 1..(n - 1) : sections[k].end_char = sections[k + 1].start_char
           /\ n > 0 =>
                 /\ heads # <<>>
                 /\ sections[1].start_char = OffsetBefore(lines, heads[1])
                 /\ sections[n].end_char = OffsetBefore(lines, Len(lines) + 1)

\* two sections after a line that starts none: the first section starts after
\* that line and ends where the second starts
C17_Witness ==
    /\ Succeeded("detect_sections")
    /\ CarriesPdf(req)
    /\ Len(resp.body.sections) = 2
    /\ resp.body.sections[1].start_char > 0
    /\ resp.body.sections[1].end_char = resp.body.sections[2].start_char
    /\ resp.body.sections[2].end_char > resp.body.sections[2].start_char

\* the labels detect_sections can report
SectionLabels == { e[2] : e \in SectionKeywords } \cup {"table", "figure"}

(***************************************************************************)
(* C18.  detect_sections reports exactly one section per heading line:     *)
(* section_count is the number of lines that match a pattern, consecutive  *)
(* headings with the same label are not merged, the text before the first  *)
(* heading (the section 'unknown') is never reported, and a document       *)
(* without a matching line is answered with success and an empty list.     *)
(***************************************************************************)
C18_OneSectionPerHeading ==
    (Answered("detect_sections") /\ CarriesPdf(req)
     /\ \A i \in 1..Len(PagesOf(req)) : ~PagesOf(req)[i].broken) =>
        LET lines == DocLines(PagesOf(req))
            matching == { i \in 1..Len(lines) : HeadingLabel(lines[i]) # "none" }
        IN /\ resp.status = 200
           /\ resp.body.success
           /\ resp.body.section_count = Cardinality(matching)
           /\ Len(resp.body.sections) = resp.body.section_count
           /\ \A k \in 1..Len(resp.body.sections) :
                 resp.body.sections[k].name \in SectionLabels
           /\ matching = {} => resp.body.sections = <<>>

\* two consecutive headings with the same label, after text that starts no
\* section, are reported as two sections
C18_Witness ==
    /\ Succeeded("detect_sections")
    /\ CarriesPdf(req)
    /\ resp.body.section_count = 2
    /\ resp.body.sections[1].name = resp.body.sections[2].name
    /\ resp.body.sections[1].start_char > 0

\* a document whose only line starts no section is answered with an empty list
C18_WitnessNoHeading ==
    /\ Succeeded("detect_sections")
    /\ CarriesPdf(req)
    /\ Len(DocLines(PagesOf(req))) = 1
    /\ DocLines(PagesOf(req))[1] # <<>>
    /\ resp.body.sections = <<>>

RECURSIVE PageOfLine(_, _, _)
\* the number of the page, from page p on, that holds line i of the lines of
\* these pages
PageOfLine(pages, p, i) ==
    LET here == Len(split(extract_text_or_empty(pages[p]), "\n")) IN
    IF i <= here THEN p ELSE PageOfLine(pages, p + 1, i - here)

(***************************************************************************)
(* C19.  The page of a section is the number of the page being scanned     *)
(* when the section is closed: the page of the next heading, or the last   *)
(* page of the document for the final section.  So it is never smaller     *)
(* than the page of the section's own heading, and it may be larger.       *)
(***************************************************************************)
C19_SectionPageIsClosingPage ==
    (Succeeded("detect_sections") /\ CarriesPdf(req)) =>
        LET pages == PagesOf(req)
            lines == DocLines(pages)
            heads == HeadingIndexes(lines, 1)
            sections == resp.body.sections
        IN /\ Len(sections) = Len(heads)
           /\ \A k \in 1..Len(heads) :
                 /\ sections[k].page = IF k < Len(heads)
                                       THEN PageOfLine(pages, 1, heads[k + 1])
                                       ELSE Len(pages)
                 /\ sections[k].page >= PageOfLine(pages, 1, heads[k])

\* a section whose heading is on the first page and whose page is 2, closed
\* by the heading of the second page
C19_Witness ==
    /\ Succeeded("detect_sections")
    /\ CarriesPdf(req)
    /\ Len(PagesOf(req)) = 2
    /\ Len(resp.body.sections) = 2
    /\ PageOfLine(PagesOf(req), 1, HeadingIndexes(DocLines(PagesOf(req)), 1)[1]) = 1
    /\ resp.body.sections[1].page = 2
    /\ resp.body.sections[2].page = 2

\* ---- positions

RECURSIVE WordPages(_, _)
\* the page of every word of a document, in order, from page p on
WordPages(pages, p) ==
    IF p > Len(pages) THEN <<>>
    ELSE AsSeq([k \in 1..Len(pages[p].words) |-> p]) \o WordPages(pages, p + 1)

(***************************************************************************)
(* C20.  The positions of extract_text_with_positions are ordered and do   *)
(* not overlap: endChar - startChar is the length of the word's text, the  *)
(* startChar of the next position is greater than the endChar of the       *)
(* previous one (endChar + 1 on the same page; across pages endChar + 3    *)
(* plus 2 for every page without words between them), and the page values  *)
(* never decrease.                                                         *)
(***************************************************************************)
C20_PositionsOrderedDisjoint ==
    (Succeeded("extract_text_with_positions") /\ CarriesPdf(req)) =>
        LET positions == resp.body.positions
            of_page == WordPages(PagesOf(req), 1)
        IN /\ Len(positions) = Len(of_page)
           /\ \A k \in 1..Len(positions) :
                 /\ positions[k].page = of_page[k]
                 /\ positions[k].endChar - positions[k].startChar
                        = Len(positions[k].text)
           /\ \A k \in 1..(Len(positions) - 1) :
                 LET p == positions[k]
                     q == positions[k + 1]
                 IN /\ q.startChar > p.endChar
                    /\ p.page <= q.page
                    /\ q.startChar = IF p.page = q.page THEN p.endChar + 1
                                     ELSE p.endChar + 3 + 2 * (q.page - p.page - 1)

\* two words with a page without words between their pages: the second
\* starts 5 after the end of the first
C20_Witness ==
    /\ Succeeded("extract_text_with_positions")
    /\ CarriesPdf(req)
    /\ Len(resp.body.positions) = 2
    /\ resp.body.positions[1].page = 1
    /\ resp.body.positions[2].page = 3
    /\ resp.body.positions[2].startChar = resp.body.positions[1].endChar + 5

\* ---- screenshots

\* capture_highlights has answered a request that carries a PDF document
Captured == CloudAnswered /\ req.fn = "capture_highlights" /\ CarriesPdf(req)

\* dpi and padding of the request, with the defaults of its function
DpiOf(r) == BodyGet(r, "dpi", PyInt(IF r.fn = "capture_highlights" THEN 200 ELSE 150))
PaddingOf(r) == BodyGet(r, "padding", PyInt(IF r.fn = "capture_highlights" THEN 15 ELSE 20))

\* a coordinate of a highlight, in points
Coordinate(highlight, key, default) == dict_get(highlight, key, PyInt(default))

\* every highlight is an object whose page is a number
HighlightsHavePages(highlights) ==
    \A k \in 1..Len(highlights) :
        /\ highlights[k].t = "dict"
        /\ is_int(dict_get(highlights[k], "page", PyInt(1)))

\* a <= b for two floats
float_le(a, b) == ~float_lt(b, a)

\* the rectangle of the highlight scaled by dpi / 72.0, as the code computes
\* it: highlight.get(key, default) * scale
ScaledBox(highlight, dpi) ==
    LET times(scale) ==
            << float_mul(int_of(Coordinate(highlight, "x0", 0)), scale),
               float_mul(int_of(Coordinate(highlight, "y0", 0)), scale),
               float_mul(int_of(Coordinate(highlight, "x1", 100)), scale),
               float_mul(int_of(Coordinate(highlight, "y1", 50)), scale) >>
    IN times(truediv(dpi, 72))

\* the box is ordered and lies within [0, W] x [0, H]; a box is
\* <<x0, y0, x1, y1>>
WithinImage(box, W, H) ==
    /\ float_le(float_of_int(0), box[1]) /\ float_le(box[1], box[3])
    /\ float_le(box[3], float_of_int(W))
    /\ float_le(float_of_int(0), box[2]) /\ float_le(box[2], box[4])
    /\ float_le(box[4], float_of_int(H))

\* the rectangle of the highlight, scaled by dpi / 72.0, lies inside the
\* image of its page: 0 <= x0 <= x1 <= W and 0 <= y0 <= y1 <= H
InsideImage(highlight, pages, dpi) ==
    LET page == pages[int_of(dict_get(highlight, "page", PyInt(1)))]
    IN /\ \A key \in {"x0", "y0", "x1", "y1"} : is_int(Coordinate(highlight, key, 0))
       /\ WithinImage(ScaledBox(highlight, dpi),
                      pixels(page.width, dpi), pixels(page.height, dpi))

\* the request can be rendered whatever the imaging library does with
\* rectangles outside the image: numbers for dpi and padding, and every
\* highlight of a page of the document inside the image of that page
Renderable(r) ==
    /\ HighlightsOf(r) # <<>>
    /\ HighlightsHavePages(HighlightsOf(r))
    /\ is_int(DpiOf(r)) /\ int_of(DpiOf(r)) > 0
    /\ is_int(PaddingOf(r)) /\ int_of(PaddingOf(r)) >= 0
    /\ \A k \in 1..Len(HighlightsOf(r)) :
          PageWithin(HighlightsOf(r)[k], PagesOf(r))
          => InsideImage(HighlightsOf(r)[k], PagesOf(r), int_of(DpiOf(r)))

(***************************************************************************)
(* C21.  capture_highlights skips every highlight whose page (default 1)   *)
(* is below 1 or above the page count and renders the others: the          *)
(* screenshots keep the order of the highlights, screenshot_count is the   *)
(* number of highlights with a page of the document, every screenshot      *)
(* echoes page, label and text of its highlight, and a request whose       *)
(* highlights are all of pages the document does not have is answered      *)
(* with success and an empty list.                                         *)
(***************************************************************************)
C21_OutOfRangeHighlightsSkipped ==
    Captured =>
        LET highlights == HighlightsOf(req)
            pages == PagesOf(req)
        IN \* a renderable request is answered 200 (by contraposition)
           /\ resp.status # 200 => ~Renderable(req)
           /\ resp.status = 200 =>
                 LET within == HighlightsWithin(highlights, pages)
                     screenshots == resp.body.screenshots
                 IN /\ resp.body.success
                    /\ resp.body.screenshot_count = Len(within)
                    /\ Len(screenshots) = Len(within)
                    /\ \A k \in 1..Len(within) :
                          /\ screenshots[k].page = dict_get(within[k], "page", PyInt(1))
                          /\ screenshots[k].label = dict_get(within[k], "label", StrOf(<<>>))
                          /\ screenshots[k].text = dict_get(within[k], "text", StrOf(<<>>))
                          /\ screenshots[k].image_base64.page = int_of(screenshots[k].page)

\* a highlight of page 0 before a highlight of page 1: one screenshot, of the
\* second highlight
C21_Witness ==
    /\ Captured
    /\ Len(HighlightsOf(req)) = 2
    /\ HighlightsHavePages(HighlightsOf(req))
    /\ dict_get(HighlightsOf(req)[1], "page", PyInt(1)) = PyInt(0)
    /\ dict_get(HighlightsOf(req)[2], "page", PyInt(1)) = PyInt(1)
    /\ resp.status = 200
    /\ resp.body.screenshot_count = 1
    /\ resp.body.screenshots[1].page = PyInt(1)

\* highlights of pages the document does not have (page 0 and a page after
\* the last) are answered with success and no screenshot
C21_WitnessAllSkipped ==
    /\ Captured
    /\ Len(PagesOf(req)) = 1
    /\ Len(HighlightsOf(req)) = 2
    /\ HighlightsHavePages(HighlightsOf(req))
    /\ dict_get(HighlightsOf(req)[1], "page", PyInt(1)) = PyInt(2)
    /\ dict_get(HighlightsOf(req)[2], "page", PyInt(1)) = PyInt(0)
    /\ resp.status = 200
    /\ resp.body.screenshots = <<>>
    /\ resp.body.screenshot_count = 0

\* ---- the rectangles of a screenshot, in pixels

\* box a contains box b
Contains(a, b) ==
    /\ float_le(a[1], b[1]) /\ float_le(a[2], b[2])
    /\ float_le(b[3], a[3]) /\ float_le(b[4], a[4])

\* the images of the answer, in order: each holds the padded rectangle that
\* was drawn and the box that was cropped
ImagesOf(response) ==
    IF req.fn = "capture_highlights"
    THEN AsSeq([k \in 1..Len(response.body.screenshots) |->
                   response.body.screenshots[k].image_base64])
    ELSE AsSeq([k \in 1..Len(response.body.html.cards) |->
                   response.body.html.cards[k].src.data])

\* capture_highlights or generate_html_report has answered a request that
\* carries a PDF document and highlights
Rendered ==
    /\ CloudAnswered
    /\ req.fn \in {"capture_highlights", "generate_html_report"}
    /\ CarriesPdf(req)
    /\ HighlightsOf(req) # <<>>

(***************************************************************************)
(* C22.  For a highlight whose scaled rectangle lies inside the rendered   *)
(* page image (0 <= x0 <= x1 <= W, 0 <= y0 <= y1 <= H) and a padding       *)
(* p >= 0, the padded rectangle of capture_highlights and of               *)
(* generate_html_report contains the scaled rectangle and lies within      *)
(* [0, W] x [0, H], and the crop box (context padding 3p in                *)
(* capture_highlights, 2p in generate_html_report) contains the padded     *)
(* rectangle and lies within [0, W] x [0, H] with crop_x0 <= crop_x1 and   *)
(* crop_y0 <= crop_y1; so a request all of whose highlights are such is    *)
(* rendered.                                                               *)
(***************************************************************************)
C22_PaddedAndCropBoxesNested ==
    Rendered =>
        LET pages == PagesOf(req) IN
        \* a renderable request is answered 200 (by contraposition)
        /\ resp.status # 200 => ~Renderable(req)
        /\ (resp.status = 200 /\ int_of(PaddingOf(req)) >= 0) =>
              LET within == HighlightsWithin(HighlightsOf(req), pages)
                  images == ImagesOf(resp)
                  dpi == int_of(DpiOf(req))
              IN /\ Len(images) = Len(within)
                 /\ \A k \in 1..Len(within) :
                       LET page == pages[int_of(dict_get(within[k], "page", PyInt(1)))]
                           W == pixels(page.width, dpi)
                           H == pixels(page.height, dpi)
                           rect == images[k].rect
                           crop == images[k].crop
                           \* box is the scaled rectangle of the highlight:
                           \* the case InsideImage(within[k], pages, dpi)
                           nested(box) ==
                               WithinImage(box, W, H) =>
                                  /\ Contains(rect, box)
                                  /\ WithinImage(rect, W, H)
                                  /\ Contains(crop, rect)
                                  /\ WithinImage(crop, W, H)
                       IN (\A key \in {"x0", "y0", "x1", "y1"} :
                              is_int(Coordinate(within[k], key, 0)))
                          => nested(ScaledBox(within[k], dpi))

\* the whole page as highlight, with a padding of 30 at 100 dpi in a report:
\* the padded rectangle and the crop box are the whole image
C22_Witness ==
    /\ Rendered
    /\ req.fn = "generate_html_report"
    /\ resp.status = 200
    /\ PaddingOf(req) = PyInt(30)
    /\ Len(HighlightsOf(req)) = 1
    /\ PageWithin(HighlightsOf(req)[1], PagesOf(req))
    /\ InsideImage(HighlightsOf(req)[1], PagesOf(req), int_of(DpiOf(req)))
    /\ ImagesOf(resp)[1].rect = << float_of_int(0), float_of_int(0),
                                   float_of_int(850), float_of_int(1100) >>
    /\ ImagesOf(resp)[1].crop = ImagesOf(resp)[1].rect

\* a highlight in the page with the default padding in capture_highlights:
\* the crop box is 3 paddings wider than the padded rectangle on each side
\* (x from 217.78 and 262.78 to 848.33 and 893.33)
C22_WitnessInner ==
    /\ Rendered
    /\ req.fn = "capture_highlights"
    /\ resp.status = 200
    /\ PaddingOf(req) = PyInt(15)
    /\ Len(ImagesOf(resp)) = 1
    /\ InsideImage(HighlightsOf(req)[1], PagesOf(req), int_of(DpiOf(req)))
    /\ round_half_even(ImagesOf(resp)[1].crop[1]) = 218
    /\ round_half_even(ImagesOf(resp)[1].rect[1]) = 263
    /\ round_half_even(ImagesOf(resp)[1].rect[3]) = 848
    /\ round_half_even(ImagesOf(resp)[1].crop[3]) = 893
    /\ float_lt(ImagesOf(resp)[1].crop[1], ImagesOf(resp)[1].rect[1])
    /\ float_lt(ImagesOf(resp)[1].rect[3], ImagesOf(resp)[1].crop[3])

\* ---- figures

RECURSIVE KeptImages(_, _, _, _)
\* the images of a document, from image k of page p on, that can be read and
\* are at least min_size wide and high: each with its page and its index in
\* the image list of the page
KeptImages(pages, p, k, min_size) ==
    IF p > Len(pages) THEN <<>>
    ELSE IF k > Len(pages[p].images) THEN KeptImages(pages, p + 1, 1, min_size)
    ELSE LET img == pages[p].images[k] IN
         (IF img.ok /\ img.pixel_width >= min_size /\ img.pixel_height >= min_size
          THEN << [page |-> p, index |-> k - 1, image |-> img] >>
          ELSE <<>>)
         \o KeptImages(pages, p, k + 1, min_size)

\* the images of the document that are left out
OmittedImages(pages, min_size) ==
    { <<p, k>> \in (1..Len(pages)) \X (1..MaxImages) :
        /\ k <= Len(pages[p].images)
        /\ \/ ~pages[p].images[k].ok
           \/ pages[p].images[k].pixel_width < min_size
           \/ pages[p].images[k].pixel_height < min_size }

(***************************************************************************)
(* C23.  In extract_figures_enhanced a failure or a filter on one image    *)
(* never affects the others: an image whose width or height is below       *)
(* min_size (default 50) is omitted, an image whose extraction or          *)
(* conversion raises is omitted, every other image of every page is        *)
(* returned in page and image-list order, the response is still success,   *)
(* and figure_count is the number of returned figures.                     *)
(***************************************************************************)
C23_ImagesFailOrPassAlone ==
    (CloudAnswered /\ req.fn = "extract_figures_enhanced" /\ CarriesPdf(req)
     /\ BodyGet(req, "min_size", PyInt(50)).t = "int") =>
        LET kept == KeptImages(PagesOf(req), 1, 1, BodyGet(req, "min_size", PyInt(50)).v)
        IN /\ resp.status = 200
           /\ resp.body.success
           /\ resp.body.figure_count = Len(resp.body.figures)
           /\ Len(resp.body.figures) = Len(kept)
           /\ \A n \in 1..Len(kept) :
                 /\ resp.body.figures[n].page = kept[n].page
                 /\ resp.body.figures[n].figure_index = kept[n].index
                 /\ resp.body.figures[n].image_base64 = [png |-> kept[n].image.xref]
                 /\ resp.body.figures[n].width = kept[n].image.pixel_width
                 /\ resp.body.figures[n].height = kept[n].image.pixel_height

\* a page whose first image cannot be read and whose second image is a
\* figure: the figure is returned, with index 1
C23_Witness ==
    /\ CloudAnswered /\ req.fn = "extract_figures_enhanced" /\ CarriesPdf(req)
    /\ Len(PagesOf(req)) = 1
    /\ Len(PagesOf(req)[1].images) = 2
    /\ ~PagesOf(req)[1].images[1].ok
    /\ resp.status = 200
    /\ resp.body.figure_count = 1
    /\ resp.body.figures[1].figure_index = 1

\* an image that is wide enough and not high enough for a min_size of 300 is
\* omitted, the image after it is returned
C23_WitnessTooSmall ==
    /\ CloudAnswered /\ req.fn = "extract_figures_enhanced" /\ CarriesPdf(req)
    /\ BodyGet(req, "min_size", PyInt(50)) = PyInt(300)
    /\ OmittedImages(PagesOf(req), 300) = {<<1, 1>>}
    /\ PagesOf(req)[1].images[1].ok
    /\ resp.status = 200
    /\ resp.body.figure_count = 1

\* ---- the life of a document

\* the number of calls of this name the handler has made
Calls(call) == Cardinality({ i \in 1..Len(log) : log[i] = call })

\* the handler has opened the document of the request: the open call was
\* made on bytes that are a PDF
Opened == Called("open") /\ HasBytes(req) /\ BytesOf(req).pdf

(***************************************************************************)
(* C24.  Every function of main.py that opens a PDF document               *)
(* (pdfplumber.open or fitz.open) has closed it by the time it returns its *)
(* response, when the request succeeds and when processing raises and the  *)
(* answer is 500: open is followed by close on every path.                 *)
(* Violated: capture_highlights, generate_html_report and                  *)
(* extract_figures_enhanced call doc.close() after their loop and not in a *)
(* finally clause, so an exception in the loop leaves the document open.   *)
(***************************************************************************)
C24_OpenedDocumentIsClosed ==
    (CloudAnswered /\ Opened) =>
        /\ Calls("open") = 1
        /\ Calls("close") = 1
        /\ log[Len(log)] = "close"

\* ---- what the local server sends

\* the local server has handled a POST request
Posted == phase = "responded" /\ req.server = "local" /\ req.method = "POST"

(***************************************************************************)
(* C25.  For every POST request handled by do_POST of the local server,    *)
(* whatever step fails (JSON parsing, base64 decoding, extraction,         *)
(* serialising the result, writing the body), the handler sends exactly    *)
(* one status line and header block (one call of _set_headers), followed   *)
(* by at most one JSON body.                                               *)
(* Violated: _set_headers and the write of the body are inside the try     *)
(* block, so when the write to the client raises the except clause calls   *)
(* _set_headers(500) a second time.                                        *)
(***************************************************************************)
C25_OneHeaderBlockPerPost ==
    Posted =>
        /\ Calls("set_headers") = 1
        /\ Calls("write") <= 1
        /\ Called("write") => log[Len(log)] = "write"

\* ---- the extraction table of the report

\* a report of extraction_data has been generated
Reported ==
    /\ Succeeded("generate_html_report") /\ req.server = "cloud"
    /\ "extraction_data" \in DOMAIN req.json.value.v

\* a leaf of the table: anything but a dict without 'value'
IsLeaf(field) == field.t = "dict" => "value" \in DOMAIN field.v

\* the row of a leaf under its name
RowOf(name, leaf) ==
    IF leaf.t = "dict"
    THEN [name |-> name, value |-> leaf.v["value"], columns |-> 3,
          source |-> IF "sourceText" \in DOMAIN leaf.v THEN leaf.v["sourceText"]
                     ELSE StrOf(<<"N", "/", "A">>)]
    ELSE [name |-> name, value |-> leaf, columns |-> 2, source |-> None]

RECURSIVE LeafRows(_, _)
\* the rows of the leaves below a field, name being the dotted path of the
\* field
LeafRows(name, field) ==
    IF IsLeaf(field) THEN {RowOf(name, field)}
    ELSE UNION { LeafRows(name \o "." \o key, field.v[key]) : key \in DOMAIN field.v }

\* the rows of the leaves of the sections: the fields of every top-level
\* entry that is a dict
SectionLeaves(extraction_data) ==
    UNION { UNION { LeafRows(section \o "." \o key, extraction_data.v[section].v[key]) :
                      key \in DOMAIN extraction_data.v[section].v } :
              section \in { s \in DOMAIN extraction_data.v : extraction_data.v[s].t = "dict" } }

(***************************************************************************)
(* C26.  The extraction table of generate_html_report has one row per      *)
(* leaf of extraction_data: for every top-level section that is a dict,    *)
(* exactly one row for a scalar field or a dict containing 'value', with   *)
(* the source 'N/A' when sourceText is absent; a dict without 'value' is   *)
(* entered and its rows are named by the dotted path                       *)
(* section.field.subfield; an empty dict gives nothing, and a top-level    *)
(* entry that is not a dict gives no row.                                  *)
(***************************************************************************)
C26_OneRowPerLeaf ==
    Reported =>
        LET extraction_data == req.json.value.v.extraction_data
            rows == resp.body.html.rows
            leaves == SectionLeaves(extraction_data)
        IN /\ Len(rows) = Cardinality(leaves)
           /\ \A leaf \in leaves : \E k \in 1..Len(rows) : rows[k] = leaf
           /\ \A k \in 1..Len(rows) : rows[k] \in leaves

\* a report whose section holds a value without its source and a dict
\* nested two deep, next to a top-level entry that is not a dict
C26_Witness ==
    /\ Reported
    /\ LET extraction_data == req.json.value.v.extraction_data
           rows == resp.body.html.rows
       IN /\ DOMAIN extraction_data.v = {"note", "outcomes"}
          /\ extraction_data.v.note.t = "str"
          /\ Len(rows) = 2
          /\ rows[1].columns = 3 /\ rows[1].source = StrOf(<<"N", "/", "A">>)
          /\ rows[1].name = "outcomes.mortality"
          /\ rows[2].name = "outcomes.gos.good.good"

\* a report whose only section holds an empty dict: no row
C26_WitnessEmptyDict ==
    /\ Reported
    /\ LET extraction_data == req.json.value.v.extraction_data
       IN /\ DOMAIN extraction_data.v = {"outcomes"}
          /\ DOMAIN extraction_data.v.outcomes.v = {"mortality"}
          /\ extraction_data.v.outcomes.v.mortality = PyDict(<<>>, <<>>)
    /\ resp.body.html.rows = <<>>

\* ---- the test runners

\* run_all_tests has ended, by returning or by an exception
RunEnded == phase = "responded" /\ req.server = "runner"

\* in the calls of an integration run every test is between its
\* setup_method and its teardown_method
SetupAndTeardownAroundEachTest ==
    /\ Len(log) = 3 * Len(integration_tests)
    /\ \A k \in 1..Len(integration_tests) :
         /\ log[3 * k - 2] = "setup_method"
         /\ log[3 * k - 1] = "test"
         /\ log[3 * k] = "teardown_method"

(***************************************************************************)
(* C27.  The test runners account for every test exactly once: in          *)
(* run_all_tests of test_extraction_integration.py setup_method runs       *)
(* before and teardown_method after each of the seven tests, even when     *)
(* the test raises, and on return passed + failed is the number of tests;  *)
(* in both runners a test that raises is counted failed, the loop goes on  *)
(* with the next test, and the function returns True exactly when          *)
(* failed = 0.                                                             *)
(* Violated: when setup_method raises before self.browser is assigned,     *)
(* teardown_method raises AttributeError in the finally clause and         *)
(* leaves run_all_tests: the remaining tests are never run or counted.     *)
(***************************************************************************)
C27_EveryTestCountedOnce ==
    RunEnded =>
        /\ resp.raised = ""
        /\ resp.passed + resp.failed = Len(TestsOf(req))
        /\ resp.failed = Cardinality({ k \in 1..Len(TestsOf(req)) :
                                          req.outcomes[k] \notin {"passes", "true"} })
        /\ resp.returned = PyBool(resp.failed = 0)
        /\ (req.fn = "integration"
            /\ \A k \in 1..Len(integration_tests) : req.outcomes[k] \in {"passes", "raises"})
           => SetupAndTeardownAroundEachTest

====
